---------------------------- MODULE Spec2Model ----------------------------
(***************************************************************************)
(* pullio: update every Git repository below a start directory.           *)
(*                                                                         *)
(* The module models                                                       *)
(*   - cmd/pullio main: the credential bootstrap barrier, the discovery    *)
(*     step, the semaphore-bounded fan-out of ProcessRepository and the    *)
(*     fan-in over the result channel (specification Spec; SpecLive adds   *)
(*     the fairness of the Go scheduler, SpecHung a task whose git         *)
(*     command never returns);                                             *)
(*   - gitmanager.DetectDefaultBranch and gitmanager.ProcessRepository as  *)
(*     operators over a description of what each git command answers       *)
(*     (specification SpecDetect applies DetectDefaultBranch to inputs     *)
(*     drawn from bounded sets, specification SpecRepo calls               *)
(*     ProcessRepository twice in succession on one repository);           *)
(*   - utils.FindGitDirs as an operator over a directory tree              *)
(*     (specification SpecFind applies it to bounded trees);               *)
(*   - sshagent.EnsureAgentAndKey as an operator over the process          *)
(*     environment and the agent's key list (specification SpecAgent       *)
(*     calls it twice in succession).                                      *)
(*                                                                         *)
(* Go strings are TLA+ strings; the string functions of the Go standard    *)
(* library are defined character by character.                             *)
(***************************************************************************)
EXTENDS Integers, Sequences, FiniteSets, TLC

VARIABLES
    host,        \* the machine: GOOS, home directory, key files
    sshKeyFlag,  \* main: -key
    environ,     \* process environment: SSH_AUTH_SOCK, SSH_AGENT_PID
    agents,      \* the running ssh-agents: socket address -> identities held
    boot,        \* the calls of EnsureAgentAndKey made so far: error, effects
                 \* (SpecAgent also keeps what the outside answered)
    pc,          \* main: position of the main goroutine
    gitDirs,     \* main: result of utils.FindGitDirs
    defaultBranches, \* main: strings.Split(branchesFlag, ",")
    concurrentFlag,  \* main: -concurrent
    next,        \* main: index of the next gitDir of the scheduling loop
    sem,         \* main: number of tokens held in the channel sem
    wg,          \* main: counter of the sync.WaitGroup
    worker,      \* main: position of the goroutine of each task
    resultChan,  \* main: buffered content of resultChan
    closed,      \* main: resultChan has been closed
    closer,      \* main: position of the goroutine that waits and closes
    succeeded,   \* main: collected results with Success
    failed,      \* main: collected results without Success
    admitted,    \* history: tasks in the order they acquired a slot
    det,         \* SpecDetect: one call of DetectDefaultBranch
    run,         \* SpecRepo: a repository and the calls of ProcessRepository
    walk         \* SpecFind: a file system and one call of FindGitDirs

mainVars == <<pc, gitDirs, defaultBranches, concurrentFlag, next,
              sem, wg, worker, resultChan, closed, closer, succeeded, failed,
              admitted>>
agentVars == <<host, sshKeyFlag, environ, agents, boot>>
vars == <<host, sshKeyFlag, environ, agents, boot, pc, gitDirs,
          defaultBranches, concurrentFlag, next, sem, wg, worker, resultChan,
          closed, closer, succeeded, failed, admitted, det, run, walk>>

-----------------------------------------------------------------------------
(* Bounds of the model *)

\* largest number of repositories FindGitDirs returns
MaxTasks == 3
\* largest value of the -concurrent flag
MaxConcurrent == 2
\* largest length of the fallback list given to DetectDefaultBranch
MaxFallbacks == 2
\* number of successive calls of EnsureAgentAndKey in SpecAgent
MaxBootCalls == 2
\* number of successive calls of ProcessRepository in SpecRepo
MaxRepoCalls == 2
\* largest number of .git entries of a file system that are regular files
MaxGitFiles == 1

-----------------------------------------------------------------------------
(* Go standard library: strings, path/filepath *)

\* the i-th byte of s as a string
At(s, i) == SubSeq(s, i, i)

\* unicode.IsSpace on the characters used here
IsSpace(c) == c \in {" ", "\t", "\n", "\r"}

\* strings.HasPrefix
HasPrefix(s, prefix) ==
    /\ Len(s) >= Len(prefix)
    /\ SubSeq(s, 1, Len(prefix)) = prefix

\* strings.TrimPrefix
TrimPrefix(s, prefix) ==
    IF HasPrefix(s, prefix) THEN SubSeq(s, Len(prefix) + 1, Len(s)) ELSE s

\* strings.Contains
Contains(s, substr) ==
    \E i \in 1..(Len(s) - Len(substr) + 1) :
        SubSeq(s, i, i + Len(substr) - 1) = substr

\* smallest and largest element of a non-empty set of integers
Min(S) == CHOOSE m \in S : \A n \in S : m <= n
Max(S) == CHOOSE m \in S : \A n \in S : m >= n

\* strings.Index for a one-character substr, 1-based; 0 when absent
Index(s, c) ==
    LET hits == {i \in 1..Len(s) : At(s, i) = c}
    IN  IF hits = {} THEN 0 ELSE Min(hits)

\* strings.LastIndex for a one-character substr, 1-based; 0 when absent
LastIndex(s, c) ==
    LET hits == {i \in 1..Len(s) : At(s, i) = c}
    IN  IF hits = {} THEN 0 ELSE Max(hits)

\* strings.TrimSpace: s without its leading and trailing white space
TrimSpace(s) ==
    LET solid == {i \in 1..Len(s) : ~IsSpace(At(s, i))}
    IN  IF solid = {} THEN "" ELSE SubSeq(s, Min(solid), Max(solid))

\* strings.Split(s, sep) for a one-character separator: the pieces between
\* the separators, one more piece than separators
RECURSIVE Split(_, _)
Split(s, sep) ==
    LET m == Index(s, sep)
    IN  IF m = 0 THEN <<s>>
        ELSE <<SubSeq(s, 1, m - 1)>> \o Split(SubSeq(s, m + 1, Len(s)), sep)

\* strings.Fields: the maximal runs of non-space characters
RECURSIVE Fields(_)
Fields(s) ==
    LET solid == {i \in 1..Len(s) : ~IsSpace(At(s, i))}
        fieldStart == Min(solid)
        after == {i \in fieldStart..Len(s) : IsSpace(At(s, i))}
    IN  IF solid = {} THEN <<>>
        ELSE IF after = {} THEN <<SubSeq(s, fieldStart, Len(s))>>
        ELSE <<SubSeq(s, fieldStart, Min(after) - 1)>>
             \o Fields(SubSeq(s, Min(after), Len(s)))

\* filepath.Dir for a clean slash-separated path: everything before the last
\* separator; "/" for a path directly below the root, "." without separator
Dir(path) ==
    LET i == LastIndex(path, "/")
    IN  IF i = 0 THEN "."
        ELSE IF i = 1 THEN "/"
        ELSE SubSeq(path, 1, i - 1)

\* filepath.Base for a clean slash-separated path: its last element
Base(path) ==
    IF path = "" THEN "."
    ELSE SubSeq(path, LastIndex(path, "/") + 1, Len(path))

-----------------------------------------------------------------------------
(* internal/gitmanager *)

\* the nil error
nil == "<nil>"

\* RepoResult
RepoResult(path, branch, success, errorMessage) ==
    [Path |-> path, Branch |-> branch, Success |-> success,
     ErrorMessage |-> errorMessage]

\* a history h1 can be fast-forwarded to h2: h1 is a prefix of h2
IsPrefix(h1, h2) == Len(h1) <= Len(h2) /\ SubSeq(h2, 1, Len(h1)) = h1

\* What the git executable started by cmd.CombinedOutput answers in a
\* repository described by repo:
\*   stat        "dir", "file" or "absent": what is at the path
\*   workTree    the directory is inside a work tree
\*   origin      a remote named origin is configured
\*   symref      answer of symbolic-ref refs/remotes/origin/HEAD
\*   remoteShow  answer of remote show origin
\*   heads       names of the local branches
\*   canCheckout branches a checkout succeeds for
\*   current     the branch checked out
\*   local       commits of the branch pull works on, oldest first
\*   remote      commits of its upstream branch on origin
\*   reachable   origin answers when pull contacts it
\* The answer is [err, output, repo]: the error of the process (nil for exit
\* status 0), the combined output and the repository afterwards.
Git(repo, args) ==
    LET fail(status, output) ==
            [err |-> status, output |-> output, repo |-> repo]
        ok(output) == [err |-> nil, output |-> output, repo |-> repo]
    IN  IF repo.stat = "absent"
        THEN fail("chdir: no such file or directory", "")
        ELSE IF repo.stat # "dir"
        THEN fail("chdir: not a directory", "")
        ELSE IF args[1] = "rev-parse"
        THEN IF repo.workTree THEN ok("true\n")
             ELSE fail("exit status 128", "fatal: not a git repository\n")
        ELSE IF ~repo.workTree
        THEN fail("exit status 128", "fatal: not a git repository\n")
        ELSE IF args[1] = "remote" /\ args[2] = "get-url"
        THEN IF repo.origin THEN ok("git@host:repo.git\n")
             ELSE fail("exit status 2", "error: No such remote 'origin'\n")
        ELSE IF args[1] = "symbolic-ref"
        THEN [err |-> repo.symref.err, output |-> repo.symref.output,
              repo |-> repo]
        ELSE IF args[1] = "remote" /\ args[2] = "show"
        THEN [err |-> repo.remoteShow.err, output |-> repo.remoteShow.output,
              repo |-> repo]
        ELSE IF args[1] = "show-ref"
        THEN IF /\ HasPrefix(args[3], "refs/heads/")
                /\ TrimPrefix(args[3], "refs/heads/") \in repo.heads
             THEN ok("")
             ELSE fail("exit status 1", "")
        ELSE IF args[1] = "checkout" /\ args[3] = "-b"
        THEN IF args[4] \in repo.heads
             THEN fail("exit status 128",
                       "fatal: a branch named '" \o args[4]
                       \o "' already exists\n")
             ELSE [err |-> nil, output |-> "",
                   repo |-> [repo EXCEPT !.current = args[4],
                                         !.heads = @ \cup {args[4]}]]
        ELSE IF args[1] = "checkout"
        THEN IF args[3] \in repo.canCheckout
             THEN [err |-> nil, output |-> "",
                   repo |-> [repo EXCEPT !.current = args[3],
                                         !.heads = @ \cup {args[3]}]]
             ELSE fail("exit status 1",
                       "error: pathspec did not match any file(s) known to git\n")
        ELSE IF args[1] = "pull"
        THEN IF ~repo.origin
             THEN fail("exit status 1", "fatal: no remote repository\n")
             ELSE IF ~repo.reachable
             THEN fail("exit status 1",
                       "fatal: Could not read from remote repository.\n")
             ELSE IF IsPrefix(repo.local, repo.remote)
             THEN [err |-> nil, output |-> "",
                   repo |-> [repo EXCEPT !.local = repo.remote]]
             ELSE IF IsPrefix(repo.remote, repo.local)
             THEN ok("")
             ELSE IF "--ff-only" \in {args[i] : i \in 1..Len(args)}
             THEN fail("exit status 128",
                       "fatal: Not possible to fast-forward, aborting.\n")
             ELSE [err |-> nil, output |-> "",
                   repo |-> [repo EXCEPT
                                !.local = repo.local \o <<"merge">>]]
        ELSE fail("exit status 1", "git: unknown command\n")

\* strings.Join(args, " ")
RECURSIVE Join(_, _)
Join(elems, sep) ==
    IF Len(elems) = 0 THEN ""
    ELSE IF Len(elems) = 1 THEN elems[1]
    ELSE elems[1] \o sep \o Join(Tail(elems), sep)

\* runGitCommand once cmd.CombinedOutput has returned r
runGitCommandOutput(r, cmd) ==
    IF r.err # nil
    THEN [out |-> TrimSpace(r.output),
          err |-> "git command failed: " \o r.err \o ": "
                  \o TrimSpace(r.output),
          repo |-> r.repo, cmd |-> cmd]
    ELSE [out |-> TrimSpace(r.output), err |-> nil, repo |-> r.repo,
          cmd |-> cmd]

\* runGitCommand: [out, err, repo, cmd], cmd being the command line run
runGitCommand(repo, args) ==
    runGitCommandOutput(Git(repo, args), Join(args, " "))

\* IsGitRepo
IsGitRepo(repo) ==
    runGitCommand(repo, <<"rev-parse", "--is-inside-work-tree">>)

\* HasOriginRemote asking for the work tree instead of the remote
HasOriginRemoteAsksWorkTree(repo) ==
    runGitCommand(repo, <<"rev-parse", "--is-inside-work-tree">>)

\* HasOriginRemote
HasOriginRemote(repo) ==
    runGitCommand(repo, <<"remote", "get-url", "origin">>)

\* HeadBranchLoop taking the first field of the line instead of the last
RECURSIVE HeadBranchLoopFirstField(_)
HeadBranchLoopFirstField(lines) ==
    IF Len(lines) = 0 THEN [found |-> FALSE, branch |-> ""]
    ELSE IF /\ Contains(Head(lines), "HEAD branch:")
            /\ Len(Fields(Head(lines))) > 0
         THEN [found |-> TRUE, branch |-> Fields(Head(lines))[1]]
         ELSE HeadBranchLoopFirstField(Tail(lines))

\* DetectDefaultBranch, method 2: the loop over the lines of the output
RECURSIVE HeadBranchLoop(_)
HeadBranchLoop(lines) ==
    IF Len(lines) = 0 THEN [found |-> FALSE, branch |-> ""]
    ELSE IF /\ Contains(Head(lines), "HEAD branch:")
            /\ Len(Fields(Head(lines))) > 0
         THEN LET parts == Fields(Head(lines))
              IN  [found |-> TRUE, branch |-> parts[Len(parts)]]
         ELSE HeadBranchLoop(Tail(lines))

\* FallbackLoop that keeps looking after a hit: the last existing name wins
RECURSIVE FallbackLoopLastWins(_, _)
FallbackLoopLastWins(repo, fallbacks) ==
    IF Len(fallbacks) = 0
    THEN [branch |-> "", err |-> "could not detect default branch",
          cmds |-> <<>>]
    ELSE LET branch == Head(fallbacks)
             r == runGitCommand(repo, <<"show-ref", "--quiet",
                                        "refs/heads/" \o branch>>)
             rest == FallbackLoopLastWins(repo, Tail(fallbacks))
         IN  IF r.err = nil /\ rest.err # nil
             THEN [branch |-> branch, err |-> nil,
                   cmds |-> <<r.cmd>> \o rest.cmds]
             ELSE [rest EXCEPT !.cmds = <<r.cmd>> \o rest.cmds]

\* FallbackLoop that settles for the last name tried when none exists
RECURSIVE FallbackLoopDefaultsToLast(_, _)
FallbackLoopDefaultsToLast(repo, fallbacks) ==
    IF Len(fallbacks) = 0
    THEN [branch |-> "", err |-> nil, cmds |-> <<>>]
    ELSE LET branch == Head(fallbacks)
             r == runGitCommand(repo, <<"show-ref", "--quiet",
                                        "refs/heads/" \o branch>>)
         IN  IF r.err = nil \/ Len(fallbacks) = 1
             THEN [branch |-> branch, err |-> nil, cmds |-> <<r.cmd>>]
             ELSE LET rest == FallbackLoopDefaultsToLast(repo, Tail(fallbacks))
                  IN  [rest EXCEPT !.cmds = <<r.cmd>> \o rest.cmds]

\* DetectDefaultBranch, method 3: the loop over the fallbacks
RECURSIVE FallbackLoop(_, _)
FallbackLoop(repo, fallbacks) ==
    IF Len(fallbacks) = 0
    THEN [branch |-> "", err |-> "could not detect default branch",
          cmds |-> <<>>]
    ELSE LET branch == Head(fallbacks)
             r == runGitCommand(repo, <<"show-ref", "--quiet",
                                        "refs/heads/" \o branch>>)
         IN  IF r.err = nil
             THEN [branch |-> branch, err |-> nil, cmds |-> <<r.cmd>>]
             ELSE LET rest == FallbackLoop(repo, Tail(fallbacks))
                  IN  [rest EXCEPT !.cmds = <<r.cmd>> \o rest.cmds]

\* DetectMethods giving up when remote show names no HEAD branch
DetectMethodsFailsWithoutHeadLine(m1, m2, hb, m3) ==
    IF m1.err = nil
    THEN [branch |-> TrimPrefix(m1.out, "refs/remotes/origin/"),
          err |-> nil, cmds |-> <<m1.cmd>>]
    ELSE IF m2.err = nil /\ hb.found
    THEN [branch |-> hb.branch, err |-> nil, cmds |-> <<m1.cmd, m2.cmd>>]
    ELSE IF m2.err = nil
    THEN [branch |-> "", err |-> "could not detect default branch",
          cmds |-> <<m1.cmd, m2.cmd>>]
    ELSE [m3 EXCEPT !.cmds = <<m1.cmd, m2.cmd>> \o m3.cmds]

\* DetectMethods asking the remote before the symbolic reference
DetectMethodsRemoteFirst(m1, m2, hb, m3) ==
    IF m2.err = nil /\ hb.found
    THEN [branch |-> hb.branch, err |-> nil, cmds |-> <<m2.cmd>>]
    ELSE IF m1.err = nil
    THEN [branch |-> TrimPrefix(m1.out, "refs/remotes/origin/"),
          err |-> nil, cmds |-> <<m2.cmd, m1.cmd>>]
    ELSE [m3 EXCEPT !.cmds = <<m2.cmd, m1.cmd>> \o m3.cmds]

\* DetectDefaultBranch over the answers of its methods: m1 of symbolic-ref,
\* m2 of remote show, hb of the loop over the lines of m2, m3 of the loop
\* over the fallbacks
DetectMethods(m1, m2, hb, m3) ==
    IF m1.err = nil
    THEN [branch |-> TrimPrefix(m1.out, "refs/remotes/origin/"),
          err |-> nil, cmds |-> <<m1.cmd>>]
    ELSE IF m2.err = nil /\ hb.found
    THEN [branch |-> hb.branch, err |-> nil, cmds |-> <<m1.cmd, m2.cmd>>]
    ELSE [m3 EXCEPT !.cmds = <<m1.cmd, m2.cmd>> \o m3.cmds]

\* DetectDefaultBranch: [branch, err, cmds], cmds being the git commands run
DetectDefaultBranch(repo, fallbacks) ==
    DetectMethods(
        runGitCommand(repo, <<"symbolic-ref", "--quiet",
                              "refs/remotes/origin/HEAD">>),
        runGitCommand(repo, <<"remote", "show", "origin">>),
        HeadBranchLoop(Split(
            runGitCommand(repo, <<"remote", "show", "origin">>).out, "\n")),
        FallbackLoop(repo, fallbacks))

\* CheckoutBranch creating the branch it checks out
CheckoutBranchCreates(repo, branch) ==
    runGitCommand(repo, <<"checkout", "-q", "-b", branch>>)

\* CheckoutBranch
CheckoutBranch(repo, branch) ==
    runGitCommand(repo, <<"checkout", "-q", branch>>)

\* PullFastForwardOnly without --ff-only
Pull(repo) ==
    runGitCommand(repo, <<"pull", "-q">>)

\* PullFastForwardOnly
PullFastForwardOnly(repo) ==
    runGitCommand(repo, <<"pull", "--ff-only", "-q">>)

\* ProcessSteps going on to the pull when the checkout has failed
ProcessStepsPullsAfterCheckoutFailure(repoPath, repo, isRepo, hasOrigin, d, co, pull) ==
    IF repo.stat = "absent"
    THEN [result |-> RepoResult(repoPath, "", FALSE,
                                "Directory does not exist"),
          repo |-> repo, cmds |-> <<>>]
    ELSE IF isRepo.err # nil
    THEN [result |-> RepoResult(repoPath, "", FALSE, "Not a Git repository"),
          repo |-> repo, cmds |-> <<isRepo.cmd>>]
    ELSE IF hasOrigin.err # nil
    THEN [result |-> RepoResult(repoPath, "", FALSE, "No origin remote"),
          repo |-> repo, cmds |-> <<isRepo.cmd, hasOrigin.cmd>>]
    ELSE IF d.err # nil
    THEN [result |-> RepoResult(repoPath, "", FALSE,
              "Failed to detect default branch: " \o d.err),
          repo |-> repo,
          cmds |-> <<isRepo.cmd, hasOrigin.cmd>> \o d.cmds]
    ELSE IF co.err # nil
    THEN [result |-> RepoResult(repoPath, d.branch, FALSE,
              "Failed to checkout branch " \o d.branch \o ": " \o co.err),
          repo |-> pull.repo,
          cmds |-> <<isRepo.cmd, hasOrigin.cmd>> \o d.cmds
                   \o <<co.cmd, pull.cmd>>]
    ELSE IF pull.err # nil
    THEN [result |-> RepoResult(repoPath, d.branch, FALSE,
              "Failed to pull: " \o pull.err),
          repo |-> pull.repo,
          cmds |-> <<isRepo.cmd, hasOrigin.cmd>> \o d.cmds
                   \o <<co.cmd, pull.cmd>>]
    ELSE [result |-> RepoResult(repoPath, d.branch, TRUE, ""),
          repo |-> pull.repo,
          cmds |-> <<isRepo.cmd, hasOrigin.cmd>> \o d.cmds
                   \o <<co.cmd, pull.cmd>>]

\* ProcessSteps reporting success with the reason of the failed pull
ProcessStepsPullFailureSucceeds(repoPath, repo, isRepo, hasOrigin, d, co, pull) ==
    IF repo.stat = "absent"
    THEN [result |-> RepoResult(repoPath, "", FALSE,
                                "Directory does not exist"),
          repo |-> repo, cmds |-> <<>>]
    ELSE IF isRepo.err # nil
    THEN [result |-> RepoResult(repoPath, "", FALSE, "Not a Git repository"),
          repo |-> repo, cmds |-> <<isRepo.cmd>>]
    ELSE IF hasOrigin.err # nil
    THEN [result |-> RepoResult(repoPath, "", FALSE, "No origin remote"),
          repo |-> repo, cmds |-> <<isRepo.cmd, hasOrigin.cmd>>]
    ELSE IF d.err # nil
    THEN [result |-> RepoResult(repoPath, "", FALSE,
              "Failed to detect default branch: " \o d.err),
          repo |-> repo,
          cmds |-> <<isRepo.cmd, hasOrigin.cmd>> \o d.cmds]
    ELSE IF co.err # nil
    THEN [result |-> RepoResult(repoPath, d.branch, FALSE,
              "Failed to checkout branch " \o d.branch \o ": " \o co.err),
          repo |-> co.repo,
          cmds |-> <<isRepo.cmd, hasOrigin.cmd>> \o d.cmds \o <<co.cmd>>]
    ELSE IF pull.err # nil
    THEN [result |-> RepoResult(repoPath, d.branch, TRUE,
              "Failed to pull: " \o pull.err),
          repo |-> pull.repo,
          cmds |-> <<isRepo.cmd, hasOrigin.cmd>> \o d.cmds
                   \o <<co.cmd, pull.cmd>>]
    ELSE [result |-> RepoResult(repoPath, d.branch, TRUE, ""),
          repo |-> pull.repo,
          cmds |-> <<isRepo.cmd, hasOrigin.cmd>> \o d.cmds
                   \o <<co.cmd, pull.cmd>>]

\* ProcessSteps forgetting the branch when the pull fails
ProcessStepsPullFailureNoBranch(repoPath, repo, isRepo, hasOrigin, d, co, pull) ==
    IF repo.stat = "absent"
    THEN [result |-> RepoResult(repoPath, "", FALSE,
                                "Directory does not exist"),
          repo |-> repo, cmds |-> <<>>]
    ELSE IF isRepo.err # nil
    THEN [result |-> RepoResult(repoPath, "", FALSE, "Not a Git repository"),
          repo |-> repo, cmds |-> <<isRepo.cmd>>]
    ELSE IF hasOrigin.err # nil
    THEN [result |-> RepoResult(repoPath, "", FALSE, "No origin remote"),
          repo |-> repo, cmds |-> <<isRepo.cmd, hasOrigin.cmd>>]
    ELSE IF d.err # nil
    THEN [result |-> RepoResult(repoPath, "", FALSE,
              "Failed to detect default branch: " \o d.err),
          repo |-> repo,
          cmds |-> <<isRepo.cmd, hasOrigin.cmd>> \o d.cmds]
    ELSE IF co.err # nil
    THEN [result |-> RepoResult(repoPath, d.branch, FALSE,
              "Failed to checkout branch " \o d.branch \o ": " \o co.err),
          repo |-> co.repo,
          cmds |-> <<isRepo.cmd, hasOrigin.cmd>> \o d.cmds \o <<co.cmd>>]
    ELSE IF pull.err # nil
    THEN [result |-> RepoResult(repoPath, "", FALSE,
              "Failed to pull: " \o pull.err),
          repo |-> pull.repo,
          cmds |-> <<isRepo.cmd, hasOrigin.cmd>> \o d.cmds
                   \o <<co.cmd, pull.cmd>>]
    ELSE [result |-> RepoResult(repoPath, d.branch, TRUE, ""),
          repo |-> pull.repo,
          cmds |-> <<isRepo.cmd, hasOrigin.cmd>> \o d.cmds
                   \o <<co.cmd, pull.cmd>>]

\* ProcessRepository over the answers of its steps: isRepo of IsGitRepo,
\* hasOrigin of HasOriginRemote, d of DetectDefaultBranch, co of
\* CheckoutBranch, pull of PullFastForwardOnly
ProcessSteps(repoPath, repo, isRepo, hasOrigin, d, co, pull) ==
    IF repo.stat = "absent"
    THEN [result |-> RepoResult(repoPath, "", FALSE,
                                "Directory does not exist"),
          repo |-> repo, cmds |-> <<>>]
    ELSE IF isRepo.err # nil
    THEN [result |-> RepoResult(repoPath, "", FALSE, "Not a Git repository"),
          repo |-> repo, cmds |-> <<isRepo.cmd>>]
    ELSE IF hasOrigin.err # nil
    THEN [result |-> RepoResult(repoPath, "", FALSE, "No origin remote"),
          repo |-> repo, cmds |-> <<isRepo.cmd, hasOrigin.cmd>>]
    ELSE IF d.err # nil
    THEN [result |-> RepoResult(repoPath, "", FALSE,
              "Failed to detect default branch: " \o d.err),
          repo |-> repo,
          cmds |-> <<isRepo.cmd, hasOrigin.cmd>> \o d.cmds]
    ELSE IF co.err # nil
    THEN [result |-> RepoResult(repoPath, d.branch, FALSE,
              "Failed to checkout branch " \o d.branch \o ": " \o co.err),
          repo |-> co.repo,
          cmds |-> <<isRepo.cmd, hasOrigin.cmd>> \o d.cmds \o <<co.cmd>>]
    ELSE IF pull.err # nil
    THEN [result |-> RepoResult(repoPath, d.branch, FALSE,
              "Failed to pull: " \o pull.err),
          repo |-> pull.repo,
          cmds |-> <<isRepo.cmd, hasOrigin.cmd>> \o d.cmds
                   \o <<co.cmd, pull.cmd>>]
    ELSE [result |-> RepoResult(repoPath, d.branch, TRUE, ""),
          repo |-> pull.repo,
          cmds |-> <<isRepo.cmd, hasOrigin.cmd>> \o d.cmds
                   \o <<co.cmd, pull.cmd>>]

\* ProcessRepository: [result, repo, cmds], the repository afterwards and
\* the git commands run
ProcessRepository(repoPath, repo, branches) ==
    ProcessSteps(
        repoPath, repo,
        IsGitRepo(repo),
        HasOriginRemote(repo),
        DetectDefaultBranch(repo, branches),
        CheckoutBranch(repo, DetectDefaultBranch(repo, branches).branch),
        PullFastForwardOnly(
            CheckoutBranch(repo,
                           DetectDefaultBranch(repo, branches).branch).repo))

-----------------------------------------------------------------------------
(* internal/sshagent *)

\* filepath.Clean on the paths used here: duplicate separators collapse and
\* a trailing separator is dropped
RECURSIVE Clean(_)
Clean(path) ==
    LET dbl == {i \in 1..(Len(path) - 1) : SubSeq(path, i, i + 1) = "//"}
    IN  IF dbl # {}
        THEN Clean(SubSeq(path, 1, Min(dbl))
                   \o SubSeq(path, Min(dbl) + 2, Len(path)))
        ELSE IF Len(path) > 1 /\ At(path, Len(path)) = "/"
        THEN SubSeq(path, 1, Len(path) - 1)
        ELSE path

\* filepath.Join of two elements
FilepathJoin(a, b) ==
    IF a = "" THEN Clean(b)
    ELSE IF b = "" THEN Clean(a)
    ELSE Clean(a \o "/" \o b)

\* startSSHAgent: the loop over the lines of the announcement
RECURSIVE ParseAnnouncement(_, _)
ParseAnnouncement(lines, env) ==
    IF Len(lines) = 0 THEN env
    ELSE LET line == Head(lines)
             kv == Split(Split(line, ";")[1], "=")
             env1 ==
                 IF Contains(line, "SSH_AUTH_SOCK=")
                 THEN IF Len(kv) > 1
                      THEN [env EXCEPT !.SSH_AUTH_SOCK = kv[2]]
                      ELSE env
                 ELSE IF Contains(line, "SSH_AGENT_PID=")
                 THEN IF Len(kv) > 1
                      THEN [env EXCEPT !.SSH_AGENT_PID = kv[2]]
                      ELSE env
                 ELSE env
         IN  ParseAnnouncement(Tail(lines), env1)

\* startSSHAgent after the command has run without error: the announcement
\* is parsed into the environment env1 and SSH_AUTH_SOCK is verified
startSSHAgentParsed(goos, env, env1, ags1, cmd) ==
    IF goos = "windows"
    THEN [err |-> nil, environ |-> env, agents |-> ags1, log |-> <<cmd>>]
    ELSE IF env1.SSH_AUTH_SOCK = ""
    THEN [err |-> "failed to set SSH_AUTH_SOCK environment variable",
          environ |-> env1, agents |-> ags1, log |-> <<cmd>>]
    ELSE [err |-> nil, environ |-> env1, agents |-> ags1, log |-> <<cmd>>]

\* the command line startSSHAgent runs
AgentCommand(goos) ==
    IF goos = "windows" THEN "powershell -Command Start-Service ssh-agent"
    ELSE "ssh-agent -s"

\* startSSHAgent: [err, environ, agents, log].  launch is what the started
\* command does: its error, its standard output and the socket the new agent
\* listens on.
startSSHAgent(goos, env, ags, launch) ==
    IF launch.err # nil
    THEN [err |-> "ssh-agent command failed: " \o launch.err,
          environ |-> env, agents |-> ags, log |-> <<AgentCommand(goos)>>]
    ELSE startSSHAgentParsed(
             goos, env,
             ParseAnnouncement(Split(launch.output, "\n"), env),
             IF goos = "windows" THEN ags ELSE (launch.sock :> {}) @@ ags,
             AgentCommand(goos))

\* addSSHKey: [err, agents, log].  ssh-add reaches the agent named by the
\* environment; on exit status 0 the agent holds the identity of the key
\* file, under the comment the key file carries.
addSSHKey(h, env, ags, sshKeyPath, addErr) ==
    IF addErr # nil
    THEN [err |-> "ssh-add command failed: " \o addErr, agents |-> ags,
          log |-> <<(IF h.goos = "windows" THEN "powershell -Command " ELSE "")
                    \o "ssh-add " \o sshKeyPath>>]
    ELSE [err |-> nil,
          agents |-> [ags EXCEPT ![env.SSH_AUTH_SOCK] =
                                     @ \cup {h.files[sshKeyPath]}],
          log |-> <<(IF h.goos = "windows" THEN "powershell -Command " ELSE "")
                    \o "ssh-add " \o sshKeyPath>>]

\* EnsureKeyAdded returning success whatever addSSHKey returned
EnsureKeyAddedIgnoresError(env, add, log, sshKeyPath) ==
    [err |-> nil, environ |-> env, agents |-> add.agents,
     log |-> log \o add.log]

\* EnsureAgentAndKey, the end: the result add of addSSHKey is wrapped
EnsureKeyAdded(env, add, log, sshKeyPath) ==
    IF add.err # nil
    THEN [err |-> "failed to add SSH key " \o sshKeyPath \o " to agent: "
                  \o add.err,
          environ |-> env, agents |-> add.agents, log |-> log \o add.log]
    ELSE [err |-> nil, environ |-> env, agents |-> add.agents,
          log |-> log \o add.log]

\* EnsureKeyLoaded looking for the whole key path in the comments
EnsureKeyLoadedComparesPath(h, env, ags, log, sshKeyPath, ext) ==
    IF env.SSH_AUTH_SOCK \notin DOMAIN ags
    THEN [err |-> "failed to connect to SSH agent socket at "
                  \o env.SSH_AUTH_SOCK,
          environ |-> env, agents |-> ags,
          log |-> log \o <<"dial " \o env.SSH_AUTH_SOCK>>]
    ELSE IF ext.listErr # nil
    THEN [err |-> "failed to list keys from SSH agent: " \o ext.listErr,
          environ |-> env, agents |-> ags,
          log |-> log \o <<"dial " \o env.SSH_AUTH_SOCK, "list">>]
    ELSE IF \E key \in ags[env.SSH_AUTH_SOCK] :
                Contains(key.comment, sshKeyPath)
    THEN [err |-> nil, environ |-> env, agents |-> ags,
          log |-> log \o <<"dial " \o env.SSH_AUTH_SOCK, "list">>]
    ELSE EnsureKeyAdded(env,
                        addSSHKey(h, env, ags, sshKeyPath, ext.addErr),
                        log \o <<"dial " \o env.SSH_AUTH_SOCK, "list">>,
                        sshKeyPath)

\* EnsureAgentAndKey from NetDial on: connect to the agent at SSH_AUTH_SOCK,
\* list its keys, look for the key's file name in the comments, add the key
\* when no comment contains it.  log holds the effects so far.
EnsureKeyLoaded(h, env, ags, log, sshKeyPath, ext) ==
    IF env.SSH_AUTH_SOCK \notin DOMAIN ags
    THEN [err |-> "failed to connect to SSH agent socket at "
                  \o env.SSH_AUTH_SOCK,
          environ |-> env, agents |-> ags,
          log |-> log \o <<"dial " \o env.SSH_AUTH_SOCK>>]
    ELSE IF ext.listErr # nil
    THEN [err |-> "failed to list keys from SSH agent: " \o ext.listErr,
          environ |-> env, agents |-> ags,
          log |-> log \o <<"dial " \o env.SSH_AUTH_SOCK, "list">>]
    ELSE IF \E key \in ags[env.SSH_AUTH_SOCK] :
                Contains(key.comment, Base(sshKeyPath))
    THEN [err |-> nil, environ |-> env, agents |-> ags,
          log |-> log \o <<"dial " \o env.SSH_AUTH_SOCK, "list">>]
    ELSE EnsureKeyAdded(env,
                        addSSHKey(h, env, ags, sshKeyPath, ext.addErr),
                        log \o <<"dial " \o env.SSH_AUTH_SOCK, "list">>,
                        sshKeyPath)

\* EnsureAgentStarted going on to the agent whatever startSSHAgent returned
EnsureAgentStartedIgnoresError(h, start, sshKeyPath, ext) ==
    EnsureKeyLoaded(h, start.environ, start.agents, start.log, sshKeyPath,
                    ext)

\* EnsureAgentAndKey after startSSHAgent returned start
EnsureAgentStarted(h, start, sshKeyPath, ext) ==
    IF start.err # nil
    THEN [err |-> "failed to start ssh-agent: " \o start.err,
          environ |-> start.environ, agents |-> start.agents,
          log |-> start.log]
    ELSE IF start.environ.SSH_AUTH_SOCK = ""
    THEN [err |-> "SSH_AUTH_SOCK is still empty after starting ssh-agent",
          environ |-> start.environ, agents |-> start.agents,
          log |-> start.log]
    ELSE EnsureKeyLoaded(h, start.environ, start.agents, start.log,
                         sshKeyPath, ext)

\* the missing key reported after the agent start that returned start
KeyMissingAfterStart(start, sshKeyPath) ==
    [err |-> "SSH key does not exist: " \o sshKeyPath,
     environ |-> start.environ, agents |-> start.agents, log |-> start.log]

\* EnsureAgentAndKeyAt looking for the agent before it looks for the key
EnsureAgentAndKeyAtStartsAgentFirst(h, env, ags, sshKeyPath, ext) ==
    IF sshKeyPath \notin DOMAIN h.files
    THEN IF env.SSH_AUTH_SOCK = ""
         THEN KeyMissingAfterStart(
                  startSSHAgent(h.goos, env, ags, ext.launch), sshKeyPath)
         ELSE [err |-> "SSH key does not exist: " \o sshKeyPath,
               environ |-> env, agents |-> ags, log |-> <<>>]
    ELSE IF env.SSH_AUTH_SOCK = ""
    THEN EnsureAgentStarted(h, startSSHAgent(h.goos, env, ags, ext.launch),
                            sshKeyPath, ext)
    ELSE EnsureKeyLoaded(h, env, ags, <<>>, sshKeyPath, ext)

\* EnsureAgentAndKeyAt starting a new agent also when nothing answers at
\* the socket the environment names
EnsureAgentAndKeyAtRestartsDeadAgent(h, env, ags, sshKeyPath, ext) ==
    IF sshKeyPath \notin DOMAIN h.files
    THEN [err |-> "SSH key does not exist: " \o sshKeyPath,
          environ |-> env, agents |-> ags, log |-> <<>>]
    ELSE IF env.SSH_AUTH_SOCK = "" \/ env.SSH_AUTH_SOCK \notin DOMAIN ags
    THEN EnsureAgentStarted(h, startSSHAgent(h.goos, env, ags, ext.launch),
                            sshKeyPath, ext)
    ELSE EnsureKeyLoaded(h, env, ags, <<>>, sshKeyPath, ext)

\* EnsureAgentAndKey from os.Stat on, sshKeyPath being the expanded path
EnsureAgentAndKeyAt(h, env, ags, sshKeyPath, ext) ==
    IF sshKeyPath \notin DOMAIN h.files
    THEN [err |-> "SSH key does not exist: " \o sshKeyPath,
          environ |-> env, agents |-> ags, log |-> <<>>]
    ELSE IF env.SSH_AUTH_SOCK = ""
    THEN EnsureAgentStarted(h, startSSHAgent(h.goos, env, ags, ext.launch),
                            sshKeyPath, ext)
    ELSE EnsureKeyLoaded(h, env, ags, <<>>, sshKeyPath, ext)

\* EnsureAgentAndKey: [err, environ, agents, log], log being the commands
\* started and the connections opened.  ext holds what the outside answers
\* during the call: launch (see startSSHAgent), listErr (the error of
\* ag.List) and addErr (the error of the ssh-add process).
EnsureAgentAndKey(h, env, ags, keyFlag, ext) ==
    IF HasPrefix(keyFlag, "~")
    THEN IF h.home = ""
         THEN [err |-> "failed to get home directory: $HOME is not defined",
               environ |-> env, agents |-> ags, log |-> <<>>]
         ELSE EnsureAgentAndKeyAt(
                  h, env, ags,
                  FilepathJoin(h.home, SubSeq(keyFlag, 2, Len(keyFlag))), ext)
    ELSE EnsureAgentAndKeyAt(h, env, ags, keyFlag, ext)

\* EnsureAgentAndKey: the home directory needed to expand keyFlag is known
KeyResolves(h, keyFlag) == ~HasPrefix(keyFlag, "~") \/ h.home # ""

\* EnsureAgentAndKey: the key path after the expansion of a leading ~
ExpandHome(h, keyFlag) ==
    IF HasPrefix(keyFlag, "~")
    THEN FilepathJoin(h.home, SubSeq(keyFlag, 2, Len(keyFlag)))
    ELSE keyFlag

-----------------------------------------------------------------------------
(* internal/utils *)

\* A file system is a function from the paths that exist to "dir" or "file".

\* path names a directory of the file system: Stat succeeds and IsDir
IsDirAt(tree, path) == path \in DOMAIN tree /\ tree[path] = "dir"

\* the names the walk does not enter
SkippedName(name) ==
    \/ name = "node_modules"
    \/ name = ".git"
    \/ HasPrefix(name, ".")
    \/ name = "vendor"
    \/ name = "dist"
    \/ name = "build"
    \/ name = "target"

\* the entry names of the file systems used here, in the order os.ReadDir
\* returns them (sorted by name, byte by byte)
SortedNames == <<".git", ".hid", "a", "build">>

\* what a walk has done: the .git paths appended and the paths the callback
\* was called on
Walked(found, visited) == [found |-> found, visited |-> visited]

\* the callback was called on path, then the walk went on with what rest did
VisitThen(path, rest) == Walked(rest.found, <<path>> \o rest.visited)

\* one part of the walk followed by another
WalkedBoth(first, second) ==
    Walked(first.found \o second.found, first.visited \o second.visited)

\* filepath.WalkDir below an existing path with the callback of FindGitDirs:
\* the callback is called on path; SkipDir (a name that is skipped, a
\* directory holding a .git directory) ends the walk of path, otherwise the
\* entries of a directory are walked in the order of their names
RECURSIVE WalkDirFrom(_, _)
RECURSIVE WalkEntries(_, _, _)
WalkDirFrom(tree, path) ==
    IF tree[path] # "dir"
    THEN Walked(<<>>, <<path>>)
    ELSE IF SkippedName(Base(path))
    THEN Walked(<<>>, <<path>>)
    ELSE IF IsDirAt(tree, FilepathJoin(path, ".git"))
    THEN Walked(<<FilepathJoin(path, ".git")>>, <<path>>)
    ELSE VisitThen(path, WalkEntries(tree, path, SortedNames))

\* the walk of the entries of directory path that carry the given names
WalkEntries(tree, path, names) ==
    IF names = <<>> THEN Walked(<<>>, <<>>)
    ELSE IF FilepathJoin(path, Head(names)) \in DOMAIN tree
    THEN WalkedBoth(WalkDirFrom(tree, FilepathJoin(path, Head(names))),
                    WalkEntries(tree, path, Tail(names)))
    ELSE WalkEntries(tree, path, Tail(names))

\* filesystem.WalkDir(root, callback): for a root that cannot be read the
\* callback is called once with the error and answers SkipDir
WalkDir(tree, root) ==
    IF root \notin DOMAIN tree THEN Walked(<<>>, <<root>>)
    ELSE WalkDirFrom(tree, root)

\* filepath.Abs: [path, err].  cwd is the working directory, "" when it
\* cannot be determined
Abs(cwd, path) ==
    IF HasPrefix(path, "/") THEN [path |-> Clean(path), err |-> nil]
    ELSE IF cwd = ""
    THEN [path |-> "", err |-> "getwd: no such file or directory"]
    ELSE IF path = "." THEN [path |-> Clean(cwd), err |-> nil]
    ELSE [path |-> FilepathJoin(cwd, path), err |-> nil]

\* FindGitDirs once the walk has returned w: gitDirs and a nil error
FindGitDirsWalked(w) ==
    [dirs |-> w.found, err |-> nil, visited |-> w.visited]

\* FindGitDirsAt walking even when the root holds a .git directory
FindGitDirsAtWalksAlways(tree, abs) ==
    IF abs.err # nil
    THEN [dirs |-> <<>>,
          err |-> "failed to get absolute path for : " \o abs.err,
          visited |-> <<>>]
    ELSE FindGitDirsWalked(WalkDir(tree, abs.path))

\* FindGitDirs after filepath.Abs returned abs
FindGitDirsAt(tree, abs) ==
    IF abs.err # nil
    THEN [dirs |-> <<>>,
          err |-> "failed to get absolute path for : " \o abs.err,
          visited |-> <<>>]
    ELSE IF IsDirAt(tree, FilepathJoin(abs.path, ".git"))
    THEN [dirs |-> <<FilepathJoin(abs.path, ".git")>>, err |-> nil,
          visited |-> <<>>]
    ELSE FindGitDirsWalked(WalkDir(tree, abs.path))

\* FindGitDirs: [dirs, err, visited], visited being the paths the callback
\* of the walk was called on
FindGitDirs(cwd, tree, root) == FindGitDirsAt(tree, Abs(cwd, root))

-----------------------------------------------------------------------------
(* Inputs *)

\* branch names used as local branches and as fallbacks
BranchNames == {"main", "master", "dev"}

\* answers of git symbolic-ref --quiet refs/remotes/origin/HEAD
SymrefAnswers ==
    { [err |-> "exit status 1", output |-> ""],
      [err |-> nil, output |-> "refs/remotes/origin/main\n"],
      [err |-> nil, output |-> "refs/remotes/origin/feature/x\n"],
      [err |-> nil, output |-> "refs/heads/dev\n"] }

\* answers of git remote show origin
RemoteShowAnswers ==
    { [err |-> "exit status 128",
       output |-> "fatal: Could not read from remote repository.\n"],
      [err |-> nil,
       output |-> "* remote origin\n  HEAD branch: develop\n  Remote branch:\n    develop tracked\n"],
      [err |-> nil,
       output |-> "* remote origin\r\n  HEAD branch: (unknown)\r\n"],
      [err |-> nil,
       output |-> "  Fetch URL: /srv/HEAD branch:/r.git\n  HEAD branch: main\n"],
      [err |-> nil,
       output |-> "* remote origin\n  HEAD branch (remote HEAD is ambiguous):\n    main\n"] }

\* a repository that passes every step of ProcessRepository
GoodRepo ==
    [stat |-> "dir", workTree |-> TRUE, origin |-> TRUE,
     symref |-> [err |-> nil, output |-> "refs/remotes/origin/main\n"],
     remoteShow |-> [err |-> nil,
                     output |-> "* remote origin\n  HEAD branch: main\n"],
     heads |-> {"main"}, canCheckout |-> {"main"}, current |-> "main",
     local |-> <<"c1">>, remote |-> <<"c1", "c2">>, reachable |-> TRUE]

\* the repositories DetectDefaultBranch is applied to
DetectRepos ==
    { [GoodRepo EXCEPT !.symref = s, !.remoteShow = r, !.heads = h] :
        s \in SymrefAnswers, r \in RemoteShowAnswers, h \in SUBSET BranchNames }

\* the sequences over S of length at most n
SeqsUpTo(S, n) == UNION { [1..k -> S] : k \in 0..n }

\* the fallback lists DetectDefaultBranch is given
FallbackLists == SeqsUpTo(BranchNames, MaxFallbacks)

\* the default key and the identity its file holds: the agent lists a key
\* under the comment stored in the key file (ssh-keygen writes user@host) or,
\* for a file without comment, under the path given to ssh-add
KeyPath == "/home/u/.ssh/id_ed25519"
KeyFiles ==
    { KeyPath :> [key |-> "K1", comment |-> KeyPath],
      KeyPath :> [key |-> "K1", comment |-> "u@host"] }

\* the machines the bootstrap runs on
Hosts ==
    { [goos |-> g, home |-> hm, files |-> f] :
        g \in {"linux", "windows"}, hm \in {"/home/u", ""}, f \in KeyFiles }

\* values of the -key flag: the key, the key below ~, a missing file, a
\* missing file below ~
KeyFlags ==
    {KeyPath, "~/.ssh/id_ed25519", "/home/u/.ssh/id_rsa", "~/.ssh/id_rsa"}

\* values of SSH_AUTH_SOCK at program start: unset, a running agent, a
\* socket nobody listens on
AuthSocks == {"", "/tmp/agent.1", "/tmp/gone"}

\* what the agent at /tmp/agent.1 holds at program start
HeldKeys(h) ==
    { {}, {h.files[KeyPath]},
      {[key |-> "K2", comment |-> "/backup/old-id_ed25519"]} }

\* what starting ssh-agent does: it fails, it announces its socket in sh
\* syntax, it announces it in csh syntax
AnnounceSh ==
    "SSH_AUTH_SOCK=/tmp/agent.2; export SSH_AUTH_SOCK;\nSSH_AGENT_PID=22; export SSH_AGENT_PID;\necho Agent pid 22;\n"
AnnounceCsh ==
    "setenv SSH_AUTH_SOCK /tmp/agent.2;\nsetenv SSH_AGENT_PID 22;\n"
Launches ==
    { [err |-> "exit status 1", output |-> "", sock |-> ""],
      [err |-> nil, output |-> AnnounceSh, sock |-> "/tmp/agent.2"],
      [err |-> nil, output |-> AnnounceCsh, sock |-> "/tmp/agent.2"] }

\* what the outside answers during one call of EnsureAgentAndKey
Exts ==
    { [launch |-> l, listErr |-> le, addErr |-> ae] :
        l \in Launches, le \in {nil, "agent failure"},
        ae \in {nil, "exit status 1"} }

\* the repositories the batch meets: one that is updated, one whose
\* directory is gone and one whose branch has diverged from origin
MainRepos ==
    { GoodRepo,
      [GoodRepo EXCEPT !.stat = "absent"],
      [GoodRepo EXCEPT !.local = <<"c1", "c3">>] }

\* the commits of history h
Commits(h) == {h[i] : i \in 1..Len(h)}

\* the branch of a repository and its upstream: in step, behind, ahead,
\* diverged
Histories ==
    { [local |-> <<"c1", "c2">>, remote |-> <<"c1", "c2">>],
      [local |-> <<"c1">>, remote |-> <<"c1", "c2">>],
      [local |-> <<"c1", "c3">>, remote |-> <<"c1">>],
      [local |-> <<"c1", "c3">>, remote |-> <<"c1", "c2">>] }

\* the directories ProcessRepository is applied to: work trees in every
\* condition of the six steps, and paths that are no directory
RepoInputs ==
    { [GoodRepo EXCEPT !.workTree = w, !.origin = o, !.symref = s,
                       !.remoteShow = r, !.heads = hd, !.canCheckout = cc,
                       !.current = cur, !.local = h.local,
                       !.remote = h.remote, !.reachable = net] :
        w \in BOOLEAN, o \in BOOLEAN,
        s \in { [err |-> "exit status 1", output |-> ""],
                [err |-> nil, output |-> "refs/remotes/origin/main\n"] },
        r \in { [err |-> "exit status 128",
                 output |-> "fatal: unreachable\n"],
                [err |-> nil,
                 output |-> "* remote origin\n  HEAD branch: dev\n"] },
        hd \in {{}, {"master"}, {"main", "dev"}},
        cc \in {{}, {"main"}, {"main", "master", "dev"}},
        cur \in {"main", "dev"},
        h \in Histories, net \in BOOLEAN }
    \cup { [GoodRepo EXCEPT !.stat = st, !.local = h.local,
                            !.remote = h.remote] :
             st \in {"absent", "file"}, h \in Histories }

\* the directories a file system may hold: /w, three directories in it and
\* one directory in each of them; every directory may hold an entry .git
FsRoot == "/w"
FsDirs ==
    {FsRoot}
    \cup {FsRoot \o "/" \o n : n \in {".hid", "a", "build"}}
    \cup {FsRoot \o "/" \o n \o "/a" : n \in {".hid", "a", "build"}}
FsGitPaths == {d \o "/.git" : d \in FsDirs}

\* the sets of paths in which every path but /w has its parent
FsPathSets ==
    {S \in SUBSET (FsDirs \cup FsGitPaths) :
        \A p \in S : p = FsRoot \/ Dir(p) \in S}

\* the file systems: every path a directory, but for at most MaxGitFiles
\* entries .git that are regular files
FileSystems ==
    UNION { { [p \in S |-> IF p \in F THEN "file" ELSE "dir"] :
                F \in {G \in SUBSET (S \cap FsGitPaths) :
                          Cardinality(G) <= MaxGitFiles} } :
            S \in FsPathSets }

\* working directory and -path argument of a run
StartPaths ==
    { [cwd |-> "/w", root |-> "."],
      [cwd |-> "/w", root |-> "a"],
      [cwd |-> "/w/build", root |-> "."],
      [cwd |-> "", root |-> "/w/.hid/"],
      [cwd |-> "", root |-> "."] }

\* the i-th repository root below the start path
RepoRoot(i) == "/w/r" \o ToString(i)

-----------------------------------------------------------------------------
(* SpecDetect: one call of DetectDefaultBranch on each input *)

mainIdle ==
    /\ pc = "idle"
    /\ gitDirs = <<>>
    /\ defaultBranches = <<>>
    /\ concurrentFlag = 0
    /\ next = 0
    /\ sem = 0
    /\ wg = 0
    /\ worker = <<>>
    /\ resultChan = <<>>
    /\ closed = FALSE
    /\ closer = "idle"
    /\ succeeded = <<>>
    /\ failed = <<>>
    /\ admitted = <<>>

agentIdle ==
    /\ sshKeyFlag = ""
    /\ host = [goos |-> "linux", home |-> "", files |-> <<>>]
    /\ environ = [SSH_AUTH_SOCK |-> "", SSH_AGENT_PID |-> ""]
    /\ agents = <<>>
    /\ boot = <<>>

NoCall == [branch |-> "", err |-> nil, cmds |-> <<>>]

InitDetect ==
    /\ mainIdle
    /\ agentIdle
    /\ run = [phase |-> "idle"]
    /\ walk = [phase |-> "idle"]
    /\ \E repo \in DetectRepos, fallbacks \in FallbackLists :
          det = [phase |-> "call", repo |-> repo, fallbacks |-> fallbacks,
                 out |-> NoCall]

DetectCall ==
    /\ det.phase = "call"
    /\ det' = [det EXCEPT !.phase = "done",
                          !.out = DetectDefaultBranch(det.repo, det.fallbacks)]
    /\ UNCHANGED <<mainVars, agentVars, run, walk>>

NextDetect == DetectCall

SpecDetect == InitDetect /\ [][NextDetect]_vars

-----------------------------------------------------------------------------
(* Properties of DetectDefaultBranch, checked under SpecDetect *)

\* the symbolic-reference query fails
SymbolicRefFails == det.repo.symref.err # nil

\* the remote-introspection strategy fails: the command fails or no line of
\* its output contains "HEAD branch:"
RemoteShowFails ==
    \/ det.repo.remoteShow.err # nil
    \/ ~Contains(det.repo.remoteShow.output, "HEAD branch:")

\* positions of the fallback names that exist as local branches
ExistingFallbacks ==
    {i \in 1..Len(det.fallbacks) : det.fallbacks[i] \in det.repo.heads}

\* the call ran the remote-introspection query or a fallback existence check
RanRemoteShow == \E i \in 1..Len(det.out.cmds) :
                     HasPrefix(det.out.cmds[i], "remote show")
RanShowRef == \E i \in 1..Len(det.out.cmds) :
                  HasPrefix(det.out.cmds[i], "show-ref")

\* C6: when the symbolic-reference query succeeds, the call returns without
\* error the reference minus its prefix refs/remotes/origin/ (the reference
\* itself when it lacks the prefix) and runs neither remote show nor show-ref.
ThmC6_SymbolicRefWins ==
    (det.phase = "done" /\ ~SymbolicRefFails) =>
        LET ref == TrimSpace(det.repo.symref.output)
        IN  /\ det.out.err = nil
            /\ \/ ref = "refs/remotes/origin/" \o det.out.branch
               \/ /\ ~HasPrefix(ref, "refs/remotes/origin/")
                  /\ det.out.branch = ref
            /\ ~RanRemoteShow
            /\ ~RanShowRef

\* C6 witness: the reference names origin/main, the remote would advertise
\* another branch and a fallback exists, and the call returned main.
WitC6_SymbolicRefWins ==
    /\ det.phase = "done"
    /\ det.repo.symref.output = "refs/remotes/origin/main\n"
    /\ ~RemoteShowFails
    /\ ExistingFallbacks # {}
    /\ det.out.branch = "main"

\* C7: when strategies 1 and 2 fail and some fallback name exists locally,
\* the call returns without error the existing name earliest in the list.
ThmC7_FirstExistingFallback ==
    (/\ det.phase = "done"
     /\ SymbolicRefFails
     /\ RemoteShowFails
     /\ ExistingFallbacks # {}) =>
        /\ det.out.err = nil
        /\ det.out.branch = det.fallbacks[Min(ExistingFallbacks)]

\* C7 witness: two different fallback names both exist and the first one is
\* returned.
WitC7_FirstExistingFallback ==
    /\ det.phase = "done"
    /\ SymbolicRefFails
    /\ RemoteShowFails
    /\ Len(det.fallbacks) = 2
    /\ det.fallbacks[1] # det.fallbacks[2]
    /\ ExistingFallbacks = {1, 2}
    /\ det.out.branch = det.fallbacks[1]

\* C8: when strategies 1 and 2 fail and no fallback name exists locally (also
\* for the empty list), the call returns an error and the empty branch name.
ThmC8_NoBranchFound ==
    (/\ det.phase = "done"
     /\ SymbolicRefFails
     /\ RemoteShowFails
     /\ ExistingFallbacks = {}) =>
        /\ det.out.err # nil
        /\ det.out.branch = ""

\* C8 witness: a non-empty fallback list with no existing name ended in the
\* error.
WitC8_NoBranchFound ==
    /\ det.phase = "done"
    /\ SymbolicRefFails
    /\ det.repo.remoteShow.err # nil
    /\ Len(det.fallbacks) = 2
    /\ det.repo.heads # {}
    /\ ExistingFallbacks = {}
    /\ det.out.err = "could not detect default branch"

\* the last white-space separated token of the first line of output that
\* contains "HEAD branch:", located by positions in output
LastTokenOfFirstHeadBranchLine(output) ==
    LET n == Len("HEAD branch:")
        at == Min({i \in 1..(Len(output) - n + 1) :
                      SubSeq(output, i, i + n - 1) = "HEAD branch:"})
        before == {j \in 1..at : At(output, j) = "\n"}
        after == {j \in at..Len(output) : At(output, j) = "\n"}
        lineStart == IF before = {} THEN 1 ELSE Max(before) + 1
        lineEnd == IF after = {} THEN Len(output) ELSE Min(after) - 1
        tokEnd == Max({j \in lineStart..lineEnd : ~IsSpace(At(output, j))})
        tokStart == Min({a \in lineStart..tokEnd :
                            \A k \in a..tokEnd : ~IsSpace(At(output, k))})
    IN  SubSeq(output, tokStart, tokEnd)

\* C9: when the symbolic-reference query fails and remote show succeeds with
\* a line containing "HEAD branch:", the call returns without error the last
\* token of the first such line and runs no show-ref.
ThmC9_RemoteHeadBranch ==
    (/\ det.phase = "done"
     /\ SymbolicRefFails
     /\ ~RemoteShowFails) =>
        /\ det.out.err = nil
        /\ det.out.branch =
               LastTokenOfFirstHeadBranchLine(det.repo.remoteShow.output)
        /\ ~RanShowRef

\* C9 witness: remote show advertises develop on its second line, a fallback
\* name exists locally, and the call returned develop.
WitC9_RemoteHeadBranch ==
    /\ det.phase = "done"
    /\ SymbolicRefFails
    /\ ~RemoteShowFails
    /\ ExistingFallbacks # {}
    /\ det.out.branch = "develop"

\* remote show succeeds and no line of its output contains "HEAD branch:"
RemoteShowNamesNoHead ==
    /\ det.repo.remoteShow.err = nil
    /\ ~Contains(det.repo.remoteShow.output, "HEAD branch:")

\* C28: when the symbolic-reference query fails and remote show succeeds
\* without a line containing "HEAD branch:", the call goes on to the
\* fallbacks: after the two queries it checks the fallback names in order
\* up to the first that exists and returns that name without error, or
\* checks all of them and returns the not-found error when none exists.
ThmC28_NoHeadLineFallsThrough ==
    (/\ det.phase = "done"
     /\ SymbolicRefFails
     /\ RemoteShowNamesNoHead) =>
        /\ Len(det.out.cmds) >= 2
        /\ det.out.cmds[2] = "remote show origin"
        /\ IF ExistingFallbacks = {}
           THEN /\ det.out.err = "could not detect default branch"
                /\ det.out.branch = ""
                /\ Len(det.out.cmds) = 2 + Len(det.fallbacks)
           ELSE /\ det.out.err = nil
                /\ det.out.branch = det.fallbacks[Min(ExistingFallbacks)]
                /\ Len(det.out.cmds) = 2 + Min(ExistingFallbacks)
        /\ \A i \in 3..Len(det.out.cmds) :
              det.out.cmds[i] = "show-ref --quiet refs/heads/"
                                   \o det.fallbacks[i - 2]

WitC28_NoHeadLineFallsThrough ==
    /\ det.phase = "done"
    /\ SymbolicRefFails
    /\ RemoteShowNamesNoHead
    /\ Len(det.fallbacks) = 2
    /\ ExistingFallbacks = {2}
    /\ det.out.branch = det.fallbacks[2]
    /\ Len(det.out.cmds) = 4

-----------------------------------------------------------------------------
(* SpecAgent: EnsureAgentAndKey called several times in succession *)

InitAgent ==
    /\ mainIdle
    /\ det = [phase |-> "idle"]
    /\ run = [phase |-> "idle"]
    /\ walk = [phase |-> "idle"]
    /\ host \in Hosts
    /\ sshKeyFlag \in KeyFlags
    /\ \E sock \in AuthSocks :
          environ = [SSH_AUTH_SOCK |-> sock, SSH_AGENT_PID |-> ""]
    /\ \E held \in HeldKeys(host) : agents = ("/tmp/agent.1" :> held)
    /\ boot = <<>>

BootCall ==
    /\ Len(boot) < MaxBootCalls
    /\ \E ext \in Exts :
          \E r \in {EnsureAgentAndKey(host, environ, agents, sshKeyFlag, ext)} :
              /\ environ' = r.environ
              /\ agents' = r.agents
              /\ boot' = Append(boot, [err |-> r.err, log |-> r.log,
                                       ext |-> ext])
    /\ UNCHANGED <<mainVars, host, sshKeyFlag, det, run,
                   walk>>

NextAgent == BootCall

SpecAgent == InitAgent /\ [][NextAgent]_vars

\* call number n started the key registration command
RanSshAdd(n) ==
    \E i \in 1..Len(boot[n].log) : Contains(boot[n].log[i], "ssh-add ")

\* the latest call of EnsureAgentAndKey
LastBoot == boot[Len(boot)]

\* the key path of the run is resolved and names a file / names no file
KeyExists ==
    /\ KeyResolves(host, sshKeyFlag)
    /\ ExpandHome(host, sshKeyFlag) \in DOMAIN host.files
KeyMissing ==
    /\ KeyResolves(host, sshKeyFlag)
    /\ ExpandHome(host, sshKeyFlag) \notin DOMAIN host.files

\* the entries of a call's log that open a connection to an agent, and
\* those that start the key registration command
Dialled(call) ==
    {i \in 1..Len(call.log) : HasPrefix(call.log[i], "dial ")}
Registered(call) ==
    {i \in 1..Len(call.log) : Contains(call.log[i], "ssh-add ")}

\* C22: a call of EnsureAgentAndKey whose key path names no file returns
\* the key-not-found error on that path, has started no command and opened
\* no connection, and leaves the environment and the agents as they were.
ThmC22_MissingKeyFailsFast ==
    [][ (boot' # boot /\ KeyMissing) =>
            /\ LastBoot'.err = "SSH key does not exist: "
                                   \o ExpandHome(host, sshKeyFlag)
            /\ LastBoot'.log = <<>>
            /\ environ' = environ
            /\ agents' = agents ]_vars

WitC22_MissingKeyFailsFast ==
    /\ KeyMissing
    /\ Len(boot) >= 1
    /\ HasPrefix(boot[1].err, "SSH key does not exist: ")
    /\ boot[1].ext.launch.err = nil
    /\ environ.SSH_AUTH_SOCK = ""

\* the errors EnsureAgentAndKey returns when no agent could be started
AgentStartError(err) ==
    \/ HasPrefix(err, "failed to start ssh-agent: ")
    \/ err = "SSH_AUTH_SOCK is still empty after starting ssh-agent"

\* the call has neither opened a connection nor started the registration
NoAgentContact(call) == Dialled(call) = {} /\ Registered(call) = {}

\* C23: a call of EnsureAgentAndKey on an existing key with SSH_AUTH_SOCK
\* unset first starts the agent command.  When the command fails, or when
\* SSH_AUTH_SOCK is still unset after the call, the call returns an
\* agent-start error and has neither connected nor registered.  When the
\* command of a Unix-like system succeeds and announces its socket in sh
\* syntax, the environment holds the announced socket and pid after the
\* call and no agent-start error is returned.  No call changes an
\* environment in which SSH_AUTH_SOCK is set.
ThmC23_AgentStartedWhenUnset ==
    [][ /\ (boot' # boot /\ KeyExists /\ environ.SSH_AUTH_SOCK = "") =>
              /\ LastBoot'.log # <<>>
              /\ LastBoot'.log[1] = AgentCommand(host.goos)
              /\ LastBoot'.ext.launch.err # nil =>
                    /\ AgentStartError(LastBoot'.err)
                    /\ NoAgentContact(LastBoot')
                    /\ environ' = environ
              /\ environ'.SSH_AUTH_SOCK = "" =>
                    /\ AgentStartError(LastBoot'.err)
                    /\ NoAgentContact(LastBoot')
              /\ (/\ LastBoot'.ext.launch.err = nil
                  /\ LastBoot'.ext.launch.output = AnnounceSh
                  /\ host.goos # "windows") =>
                    /\ environ'.SSH_AUTH_SOCK = LastBoot'.ext.launch.sock
                    /\ environ'.SSH_AGENT_PID = "22"
                    /\ ~AgentStartError(LastBoot'.err)
        /\ environ.SSH_AUTH_SOCK # "" => environ' = environ ]_vars

WitC23_AgentStartedWhenUnset ==
    /\ Len(boot) = 2
    /\ host.goos = "linux"
    /\ boot[1].log # <<>>
    /\ boot[1].log[1] = "ssh-agent -s"
    /\ boot[1].ext.launch.err = nil
    /\ boot[1].ext.launch.output = AnnounceSh
    /\ environ = [SSH_AUTH_SOCK |-> "/tmp/agent.2", SSH_AGENT_PID |-> "22"]

\* the call has listed the identities of the agent without error
Listed(call) ==
    /\ \E i \in 1..Len(call.log) : call.log[i] = "list"
    /\ call.ext.listErr = nil

\* the identities the agent at socket sock holds in agent table ags, none
\* for an agent that is not running yet
HeldAt(ags, sock) == IF sock \in DOMAIN ags THEN ags[sock] ELSE {}

\* some identity of the set carries a label that contains the file name
LabelNames(held, name) == \E key \in held : Contains(key.comment, name)

\* C24: a call of EnsureAgentAndKey that has listed the agent's identities
\* starts the key registration exactly when no identity the agent held
\* before the call carries a label that contains the base name of the key
\* file; when some label contains it the call returns success and the
\* agent holds what it held.
ThmC24_RegistersIffNotListed ==
    [][ (boot' # boot /\ Listed(LastBoot')) =>
            /\ Registered(LastBoot') # {} <=>
                  ~LabelNames(HeldAt(agents, environ'.SSH_AUTH_SOCK),
                              Base(ExpandHome(host, sshKeyFlag)))
            /\ LabelNames(HeldAt(agents, environ'.SSH_AUTH_SOCK),
                          Base(ExpandHome(host, sshKeyFlag))) =>
                  /\ LastBoot'.err = nil
                  /\ HeldAt(agents', environ'.SSH_AUTH_SOCK)
                        = HeldAt(agents, environ'.SSH_AUTH_SOCK) ]_vars

WitC24_RegistersIffNotListed ==
    /\ Len(boot) = 2
    /\ Listed(boot[1]) /\ Registered(boot[1]) # {} /\ boot[1].err = nil
    /\ Listed(boot[2]) /\ Registered(boot[2]) = {} /\ boot[2].err = nil
    /\ host.files[KeyPath].comment = KeyPath

\* C25: a call of EnsureAgentAndKey that has started the key registration
\* returns the key-add error exactly when the registration command ended
\* with an error, and success otherwise.
ThmC25_KeyAddErrorIffNonZero ==
    [][ (boot' # boot /\ Registered(LastBoot') # {}) =>
            /\ Cardinality(Registered(LastBoot')) = 1
            /\ LastBoot'.ext.addErr # nil <=>
                  HasPrefix(LastBoot'.err, "failed to add SSH key "
                              \o ExpandHome(host, sshKeyFlag)
                              \o " to agent: ssh-add command failed: ")
            /\ LastBoot'.ext.addErr = nil <=> LastBoot'.err = nil ]_vars

WitC25_KeyAddErrorIffNonZero ==
    /\ Len(boot) = 2
    /\ Registered(boot[1]) # {}
    /\ boot[1].ext.addErr = "exit status 1"
    /\ HasPrefix(boot[1].err, "failed to add SSH key ")
    /\ Registered(boot[2]) # {}
    /\ boot[2].ext.addErr = nil
    /\ boot[2].err = nil

\* the call has started the agent command
Launched(call) ==
    \E i \in 1..Len(call.log) : call.log[i] = AgentCommand(host.goos)

\* nothing answers at the socket the environment names
ConnectFails == environ.SSH_AUTH_SOCK \notin DOMAIN agents

\* C33: a call of EnsureAgentAndKey on an existing key with SSH_AUTH_SOCK
\* set, in which the connection to that socket fails or the listing of the
\* identities fails, returns the connection error or the listing error,
\* starts no agent and no key registration, and leaves the environment and
\* the agents as they were; a call starts an agent only when SSH_AUTH_SOCK
\* was unset when it began.
ThmC33_NoRestartOnAgentFailure ==
    [][ /\ (/\ boot' # boot
            /\ KeyExists
            /\ environ.SSH_AUTH_SOCK # ""
            /\ ConnectFails \/ LastBoot'.ext.listErr # nil) =>
              /\ LastBoot'.err =
                    IF ConnectFails
                    THEN "failed to connect to SSH agent socket at "
                             \o environ.SSH_AUTH_SOCK
                    ELSE "failed to list keys from SSH agent: "
                             \o LastBoot'.ext.listErr
              /\ ~Launched(LastBoot')
              /\ Registered(LastBoot') = {}
              /\ ConnectFails => ~Listed(LastBoot')
              /\ Cardinality(Dialled(LastBoot')) = 1
              /\ environ' = environ
              /\ agents' = agents
        /\ (boot' # boot /\ Launched(LastBoot')) =>
              environ.SSH_AUTH_SOCK = "" ]_vars

\* both failures have happened: a call found nothing at the socket named by
\* the environment, or could not list the identities of the agent there,
\* although the outside would have let an agent start
WitC33_NoRestartOnAgentFailure ==
    /\ Len(boot) >= 1
    /\ KeyExists
    /\ boot[1].ext.launch.err = nil
    /\ boot[1].ext.addErr = nil
    /\ \/ /\ environ.SSH_AUTH_SOCK = "/tmp/gone"
          /\ boot[1].err = "failed to connect to SSH agent socket at /tmp/gone"
       \/ /\ environ.SSH_AUTH_SOCK = "/tmp/agent.1"
          /\ boot[1].ext.listErr = "agent failure"
          /\ boot[1].err = "failed to list keys from SSH agent: agent failure"

\* the key file the run asks for, and whether the agent the environment
\* names holds its identity
RequestedKey == host.files[ExpandHome(host, sshKeyFlag)]
AgentHoldsRequestedKey ==
    \E key \in HeldAt(agents, environ.SSH_AUTH_SOCK) :
        key.key = RequestedKey.key

\* C34: after a call of EnsureAgentAndKey that returned success, the agent
\* named by the environment holds the identity of the requested key file.
CexC34_SuccessMeansKeyHeld ==
    (Len(boot) >= 1 /\ LastBoot.err = nil) => AgentHoldsRequestedKey

\* C5: after a call of EnsureAgentAndKey that returned success, the next call
\* starts no key registration.
CexC5_SecondCallRegistersNothing ==
    \A n \in 1..(Len(boot) - 1) :
        boot[n].err = nil => ~RanSshAdd(n + 1)

-----------------------------------------------------------------------------
(* SpecRepo: ProcessRepository called several times in succession on one
   repository, nothing else touching the repository or its remote *)

InitRepo ==
    /\ mainIdle
    /\ agentIdle
    /\ det = [phase |-> "idle"]
    /\ walk = [phase |-> "idle"]
    /\ \E repo \in RepoInputs :
          run = [phase |-> "calls", path |-> RepoRoot(1), repo |-> repo,
                 branches |-> Split("main,master", ","), calls |-> <<>>]

RepoCall ==
    /\ run.phase = "calls"
    /\ Len(run.calls) < MaxRepoCalls
    /\ \E r \in {ProcessRepository(run.path, run.repo, run.branches)} :
          run' = [run EXCEPT
                     !.repo = r.repo,
                     !.calls = Append(@, [before |-> run.repo,
                                          result |-> r.result,
                                          cmds |-> r.cmds,
                                          after |-> r.repo])]
    /\ UNCHANGED <<mainVars, agentVars, det, walk>>

NextRepo == RepoCall

SpecRepo == InitRepo /\ [][NextRepo]_vars

\* the calls of ProcessRepository made so far
Calls == 1..Len(run.calls)

\* the branch DetectDefaultBranch resolves in repository repo
Resolved(repo) == DetectDefaultBranch(repo, run.branches)

\* repository repo passes the steps before the pull: it exists, is a work
\* tree, has origin, has a detectable default branch that can be checked out
PassesUntilPull(repo) ==
    /\ repo.stat = "dir"
    /\ repo.workTree
    /\ repo.origin
    /\ Resolved(repo).err = nil
    /\ Resolved(repo).branch \in repo.canCheckout

\* local and remote history have diverged: neither continues the other
Diverged(repo) ==
    /\ ~IsPrefix(repo.local, repo.remote)
    /\ ~IsPrefix(repo.remote, repo.local)

\* the last command the call ran
LastCmd(c) == IF c.cmds = <<>> THEN "" ELSE c.cmds[Len(c.cmds)]

\* C11: a call on an existing work tree without a remote named origin returns
\* the failure "No origin remote" with no branch, and runs nothing but the
\* work-tree query and the remote query.
ThmC11_NoOriginRemote ==
    \A n \in Calls :
        LET c == run.calls[n]
        IN  (c.before.stat = "dir" /\ c.before.workTree /\ ~c.before.origin)
            => /\ c.result = RepoResult(run.path, "", FALSE,
                                        "No origin remote")
               /\ c.cmds = <<"rev-parse --is-inside-work-tree",
                             "remote get-url origin">>
               /\ c.after = c.before

WitC11_NoOriginRemote ==
    \E n \in Calls :
        /\ run.calls[n].before.stat = "dir"
        /\ run.calls[n].before.workTree
        /\ ~run.calls[n].before.origin
        /\ run.calls[n].before.symref.err = nil

\* C12: a call that gets as far as the pull and whose pull fails, on diverged
\* history or an unreachable remote, returns a failure that carries the
\* resolved branch and a reason starting with "Failed to pull: ".
ThmC12_PullFailureKeepsBranch ==
    \A n \in Calls :
        LET c == run.calls[n]
        IN  (/\ PassesUntilPull(c.before)
             /\ (Diverged(c.before) \/ ~c.before.reachable))
            => /\ ~c.result.Success
               /\ c.result.Path = run.path
               /\ c.result.Branch = Resolved(c.before).branch
               /\ HasPrefix(c.result.ErrorMessage, "Failed to pull: ")
               /\ LastCmd(c) = "pull --ff-only -q"
               /\ c.after.current = Resolved(c.before).branch

WitC12_PullFailureKeepsBranch ==
    \E n \in Calls :
        /\ PassesUntilPull(run.calls[n].before)
        /\ ~run.calls[n].before.reachable
        /\ run.calls[n].before.current # Resolved(run.calls[n].before).branch

CexC14_NotADirectory ==
    \A n \in Calls :
        LET c == run.calls[n]
        IN  c.before.stat # "dir"
            => /\ c.result = RepoResult(run.path, "", FALSE,
                                        "Directory does not exist")
               /\ c.cmds = <<>>

\* C15: on a repository that passes every step and whose local history
\* equals the remote history, a call succeeds with the resolved branch and
\* leaves the history alone, and the call after it returns the same result
\* and leaves the whole repository as it found it.
ThmC15_IdempotentWhenUpToDate ==
    \A n \in Calls :
        LET c == run.calls[n]
        IN  (/\ PassesUntilPull(c.before)
             /\ c.before.reachable
             /\ c.before.local = c.before.remote)
            => /\ c.result = RepoResult(run.path, Resolved(c.before).branch,
                                        TRUE, "")
               /\ c.after.local = c.before.local
               /\ n + 1 \in Calls =>
                     /\ run.calls[n + 1].result = c.result
                     /\ run.calls[n + 1].before = c.after
                     /\ run.calls[n + 1].after = c.after

WitC15_IdempotentWhenUpToDate ==
    /\ Len(run.calls) >= 2
    /\ PassesUntilPull(run.calls[1].before)
    /\ run.calls[1].before.reachable
    /\ run.calls[1].before.local = run.calls[1].before.remote
    /\ run.calls[1].before # run.calls[1].after
    /\ run.calls[2].result.Success

\* the step of ProcessRepository that fails on repository repo, by the
\* condition of the repository: 1 the directory, 2 the work tree, 3 the
\* origin remote, 4 the branch detection, 5 the checkout, 6 the pull; 0 when
\* no step fails
FailedStep(repo) ==
    IF repo.stat = "absent" THEN 1
    ELSE IF repo.stat # "dir" \/ ~repo.workTree THEN 2
    ELSE IF ~repo.origin THEN 3
    ELSE IF Resolved(repo).err # nil THEN 4
    ELSE IF Resolved(repo).branch \notin repo.canCheckout THEN 5
    ELSE IF ~repo.reachable \/ Diverged(repo) THEN 6
    ELSE 0

\* the step of ProcessRepository that runs git command cmd
StepOf(cmd) ==
    IF cmd = "rev-parse --is-inside-work-tree" THEN 2
    ELSE IF cmd = "remote get-url origin" THEN 3
    ELSE IF \/ HasPrefix(cmd, "symbolic-ref ")
            \/ cmd = "remote show origin"
            \/ HasPrefix(cmd, "show-ref ")
    THEN 4
    ELSE IF HasPrefix(cmd, "checkout ") THEN 5
    ELSE IF HasPrefix(cmd, "pull ") THEN 6
    ELSE 0

\* the steps of the commands call c ran, in the order it ran them
StepsRun(c) == [i \in 1..Len(c.cmds) |-> StepOf(c.cmds[i])]

\* the last step a call on repository repo gets to
LastStep(repo) == IF FailedStep(repo) = 0 THEN 6 ELSE FailedStep(repo)

\* C26: the commands of a call belong to the steps from the work-tree check
\* to the step that fails on the repository (to the pull when none fails),
\* every one of these steps has run, in the order of the steps, and the
\* single-command steps have run once; the call succeeds exactly when no
\* step fails.  When the checkout fails the call returns the resolved
\* branch and a reason starting with "Failed to checkout branch <name>: ",
\* the checkout being its last command.
ThmC26_StepsInOrderStopAtFailure ==
    \A n \in Calls :
        LET c == run.calls[n]
            steps == StepsRun(run.calls[n])
        IN  /\ \A i \in DOMAIN steps : steps[i] \in 2..LastStep(c.before)
            /\ \A i, j \in DOMAIN steps : i < j => steps[i] <= steps[j]
            /\ \A k \in 2..LastStep(c.before) :
                  \E i \in DOMAIN steps : steps[i] = k
            /\ \A k \in {2, 3, 5, 6} :
                  Cardinality({i \in DOMAIN steps : steps[i] = k}) <= 1
            /\ c.result.Success <=> FailedStep(c.before) = 0
            /\ FailedStep(c.before) = 5 =>
                  /\ c.result.Branch = Resolved(c.before).branch
                  /\ HasPrefix(c.result.ErrorMessage,
                               "Failed to checkout branch "
                               \o Resolved(c.before).branch \o ": ")
                  /\ LastCmd(c) = "checkout -q " \o Resolved(c.before).branch
                  /\ c.after = c.before

WitC26_StepsInOrderStopAtFailure ==
    \E n \in Calls :
        /\ FailedStep(run.calls[n].before) = 5
        /\ Len(run.calls[n].cmds) >= 6
        /\ run.calls[n].before.reachable
        /\ ~Diverged(run.calls[n].before)

\* C27: the result of a call carries the path it was called with; it is a
\* success exactly when its reason is empty; a success means that no step
\* fails on the repository, that all steps have run and that the result
\* carries the resolved branch, now checked out; and the branch of a result
\* is empty exactly when the directory, the work tree, the origin remote or
\* the branch detection failed, and the resolved branch otherwise.
ThmC27_OutcomeWellFormed ==
    \A n \in Calls :
        LET c == run.calls[n]
        IN  /\ c.result.Path = run.path
            /\ c.result.Success <=> c.result.ErrorMessage = ""
            /\ c.result.Success =>
                  /\ FailedStep(c.before) = 0
                  /\ {StepsRun(c)[i] : i \in 1..Len(c.cmds)} = 2..6
                  /\ c.result.Branch = Resolved(c.before).branch
                  /\ c.after.current = c.result.Branch
            /\ c.result.Branch = "" <=> FailedStep(c.before) \in 1..4
            /\ FailedStep(c.before) \notin 1..4 =>
                  c.result.Branch = Resolved(c.before).branch

WitC27_OutcomeWellFormed ==
    /\ Len(run.calls) = 2
    /\ ~run.calls[1].result.Success
    /\ run.calls[1].result.Branch # ""
    /\ run.calls[1].before.current # run.calls[1].result.Branch
    /\ run.calls[2].result.ErrorMessage = run.calls[1].result.ErrorMessage

-----------------------------------------------------------------------------
(* SpecFind: one call of FindGitDirs on each file system and start path *)

InitFind ==
    /\ mainIdle
    /\ agentIdle
    /\ det = [phase |-> "idle"]
    /\ run = [phase |-> "idle"]
    /\ \E tree \in FileSystems, start \in StartPaths :
          walk = [phase |-> "call", tree |-> tree, cwd |-> start.cwd,
                  root |-> start.root,
                  out |-> [dirs |-> <<>>, err |-> nil, visited |-> <<>>]]

FindCall ==
    /\ walk.phase = "call"
    /\ walk' = [walk EXCEPT
                   !.phase = "done",
                   !.out = FindGitDirs(walk.cwd, walk.tree, walk.root)]
    /\ UNCHANGED <<mainVars, agentVars, det, run>>

NextFind == FindCall

SpecFind == InitFind /\ [][NextFind]_vars

\* the absolute start path of the call
StartDir == Abs(walk.cwd, walk.root)

\* the start path itself holds a .git directory
StartIsRepo ==
    /\ StartDir.err = nil
    /\ IsDirAt(walk.tree, StartDir.path \o "/.git")

\* the directories of the file system at or below the start path
BelowStart ==
    {p \in DOMAIN walk.tree :
        /\ walk.tree[p] = "dir"
        /\ \/ p = StartDir.path
           \/ HasPrefix(p, StartDir.path \o "/")}

\* the directories on the way from the start path down to p: p and its
\* ancestors that lie below the start path, the start path left out
WayTo(p) ==
    {q \in BelowStart :
        /\ q # StartDir.path
        /\ q = p \/ HasPrefix(p, q \o "/")}

\* the repositories the walk is to find: directories below the start path
\* that hold a .git directory, with no skipped name on the way to them and
\* no other repository above them
Findable ==
    {p \in BelowStart :
        /\ p # StartDir.path
        /\ IsDirAt(walk.tree, p \o "/.git")
        /\ \A q \in WayTo(p) : ~SkippedName(Base(q))
        /\ \A q \in WayTo(p) :
              q # p => ~IsDirAt(walk.tree, q \o "/.git")}

\* the paths FindGitDirs returned
Returned == {walk.out.dirs[i] : i \in 1..Len(walk.out.dirs)}

\* C16: when the start path holds a .git directory, FindGitDirs returns
\* that one path without error and the walk does not take place, whatever
\* repositories lie deeper.
ThmC16_RootRepositoryOnly ==
    (walk.phase = "done" /\ StartIsRepo) =>
        /\ walk.out.dirs = <<StartDir.path \o "/.git">>
        /\ walk.out.err = nil
        /\ walk.out.visited = <<>>

WitC16_RootRepositoryOnly ==
    /\ walk.phase = "done"
    /\ StartIsRepo
    /\ \E p \in BelowStart :
          p # StartDir.path /\ IsDirAt(walk.tree, p \o "/.git")

\* C17: when the start path can be resolved and is not itself a repository,
\* FindGitDirs returns without error exactly the .git paths of the
\* repositories below the start path that are reached through no skipped
\* directory and no other repository.
CexC17_WalkFindsRepositories ==
    (walk.phase = "done" /\ StartDir.err = nil /\ ~StartIsRepo) =>
        /\ walk.out.err = nil
        /\ Returned = {p \o "/.git" : p \in Findable}
        /\ Len(walk.out.dirs) = Cardinality(Returned)

\* the name of the start directory itself is one the walk does not enter
StartNameSkipped == SkippedName(Base(StartDir.path))

\* C35: the names the walk does not enter count only below the start path:
\* for a start directory that is not itself a repository, whatever its own
\* name, FindGitDirs returns without error every repository beneath it that
\* is reached through no skipped directory and no other repository.
CexC35_StartNameNotExcluded ==
    (walk.phase = "done" /\ StartDir.err = nil /\ ~StartIsRepo) =>
        /\ walk.out.err = nil
        /\ \A p \in Findable : p \o "/.git" \in Returned

-----------------------------------------------------------------------------
(* Spec: cmd/pullio main *)

\* the tasks of the batch
Tasks == 1..Len(gitDirs)

\* the outcomes main has collected
Collected == succeeded \o failed

\* the outcomes posted so far, collected or still in the channel
Reported == Collected \o resultChan

\* the outcomes of a sequence that carry the path of task i
OutcomesOf(outcomes, i) ==
    {k \in 1..Len(outcomes) : outcomes[k].Path = Dir(gitDirs[i])}

\* the tasks holding a slot of sem: admitted, deferred <-sem not yet run
Executing == {i \in Tasks : worker[i] \in {"running", "posted"}}

Init ==
    /\ det = [phase |-> "idle"]
    /\ run = [phase |-> "idle"]
    /\ walk = [phase |-> "idle"]
    /\ host = [goos |-> "linux", home |-> "/home/u",
               files |-> (KeyPath :> [key |-> "K1", comment |-> KeyPath])]
    /\ sshKeyFlag \in {KeyPath, "/home/u/.ssh/id_rsa"}
    /\ environ = [SSH_AUTH_SOCK |-> "", SSH_AGENT_PID |-> ""]
    /\ agents = <<>>
    /\ boot = <<>>
    /\ pc = "boot"
    /\ gitDirs = <<>>
    /\ defaultBranches = Split("main,master", ",")
    /\ concurrentFlag \in 0..MaxConcurrent
    /\ next = 1
    /\ sem = 0
    /\ wg = 0
    /\ worker = <<>>
    /\ resultChan = <<>>
    /\ closed = FALSE
    /\ closer = "idle"
    /\ succeeded = <<>>
    /\ failed = <<>>
    /\ admitted = <<>>

\* Bootstrap going on to the discovery whatever EnsureAgentAndKey returned
BootstrapIgnoresError ==
    /\ pc = "boot"
    /\ \E ext \in Exts :
          \E r \in {EnsureAgentAndKey(host, environ, agents, sshKeyFlag, ext)} :
              /\ environ' = r.environ
              /\ agents' = r.agents
              /\ boot' = Append(boot, [err |-> r.err, log |-> r.log])
              /\ pc' = "find"
    /\ UNCHANGED <<host, sshKeyFlag, gitDirs, defaultBranches, concurrentFlag,
                   next, sem, wg, worker, resultChan, closed, closer,
                   succeeded, failed, admitted, det, run,
                   walk>>

\* main: sshagent.EnsureAgentAndKey(sshKeyFlag), logger.Fatal on error
Bootstrap ==
    /\ pc = "boot"
    /\ \E ext \in Exts :
          \E r \in {EnsureAgentAndKey(host, environ, agents, sshKeyFlag, ext)} :
              /\ environ' = r.environ
              /\ agents' = r.agents
              /\ boot' = Append(boot, [err |-> r.err, log |-> r.log])
              /\ pc' = IF r.err # nil THEN "fatal" ELSE "find"
    /\ UNCHANGED <<host, sshKeyFlag, gitDirs, defaultBranches, concurrentFlag,
                   next, sem, wg, worker, resultChan, closed, closer,
                   succeeded, failed, admitted, det, run,
                   walk>>

\* main: utils.FindGitDirs(startPath) finds n repositories; return when none
Find ==
    /\ pc = "find"
    /\ \E n \in 0..MaxTasks :
          /\ gitDirs' = [i \in 1..n |-> RepoRoot(i) \o "/.git"]
          /\ worker' = [i \in 1..n |-> "pending"]
          /\ pc' = IF n = 0 THEN "exit" ELSE "loop"
    /\ UNCHANGED <<agentVars, defaultBranches, concurrentFlag, next, sem, wg,
                   resultChan, closed, closer, succeeded, failed, admitted,
                   det, run,
                   walk>>

\* main: utils.FindGitDirs returns an error, logger.Fatal
FindError ==
    /\ pc = "find"
    /\ pc' = "fatal"
    /\ UNCHANGED <<agentVars, gitDirs, defaultBranches, concurrentFlag, next,
                   sem, wg, worker, resultChan, closed, closer, succeeded,
                   failed, admitted, det, run,
                   walk>>

\* scheduling loop: wg.Add(1) for the next gitDir
LoopAdd ==
    /\ pc = "loop"
    /\ next <= Len(gitDirs)
    /\ wg' = wg + 1
    /\ pc' = "acquire"
    /\ UNCHANGED <<agentVars, gitDirs, defaultBranches, concurrentFlag, next,
                   sem, worker, resultChan, closed, closer, succeeded, failed,
                   admitted, det, run,
                   walk>>

\* LoopAcquire starting the goroutine without waiting for room in sem
LoopAcquireUnbounded ==
    /\ pc = "acquire"
    /\ sem' = sem + 1
    /\ worker' = [worker EXCEPT ![next] = "running"]
    /\ admitted' = Append(admitted, next)
    /\ next' = next + 1
    /\ pc' = "loop"
    /\ UNCHANGED <<agentVars, gitDirs, defaultBranches, concurrentFlag, wg,
                   resultChan, closed, closer, succeeded, failed, det, run,
                   walk>>

\* LoopAcquire taking a limit of zero for no limit
LoopAcquireZeroUnlimited ==
    /\ pc = "acquire"
    /\ concurrentFlag = 0 \/ sem < concurrentFlag
    /\ sem' = sem + 1
    /\ worker' = [worker EXCEPT ![next] = "running"]
    /\ admitted' = Append(admitted, next)
    /\ next' = next + 1
    /\ pc' = "loop"
    /\ UNCHANGED <<agentVars, gitDirs, defaultBranches, concurrentFlag, wg,
                   resultChan, closed, closer, succeeded, failed, det, run,
                   walk>>

\* LoopAcquire handing the slot to any task that has not yet started
LoopAcquireAnyPending ==
    /\ pc = "acquire"
    /\ sem < concurrentFlag
    /\ sem' = sem + 1
    /\ \E j \in {t \in 1..Len(gitDirs) : worker[t] = "pending"} :
          /\ worker' = [worker EXCEPT ![j] = "running"]
          /\ admitted' = Append(admitted, j)
    /\ next' = next + 1
    /\ pc' = "loop"
    /\ UNCHANGED <<agentVars, gitDirs, defaultBranches, concurrentFlag, wg,
                   resultChan, closed, closer, succeeded, failed, det, run,
                   walk>>

\* scheduling loop: sem <- struct{}{} blocks while the channel is full, then
\* the goroutine of the task is started
LoopAcquire ==
    /\ pc = "acquire"
    /\ sem < concurrentFlag
    /\ sem' = sem + 1
    /\ worker' = [worker EXCEPT ![next] = "running"]
    /\ admitted' = Append(admitted, next)
    /\ next' = next + 1
    /\ pc' = "loop"
    /\ UNCHANGED <<agentVars, gitDirs, defaultBranches, concurrentFlag, wg,
                   resultChan, closed, closer, succeeded, failed, det, run,
                   walk>>

\* after the loop: the goroutine that waits and closes is started and main
\* goes on to range over resultChan
LoopEnd ==
    /\ pc = "loop"
    /\ next > Len(gitDirs)
    /\ closer' = "wait"
    /\ pc' = "collect"
    /\ UNCHANGED <<agentVars, gitDirs, defaultBranches, concurrentFlag, next,
                   sem, wg, worker, resultChan, closed, succeeded, failed,
                   admitted, det, run,
                   walk>>

\* WorkerCanPost for a goroutine that runs without having been started by
\* the scheduling loop
WorkerCanPostUnadmitted(i) ==
    /\ worker[i] \in {"pending", "running"}
    /\ Len(resultChan) < Len(gitDirs)

\* the goroutine of task i has been started and resultChan, whose buffer
\* holds len(gitDirs) results, has room for its result
WorkerCanPost(i) ==
    /\ worker[i] = "running"
    /\ Len(resultChan) < Len(gitDirs)

\* goroutine of task i: ProcessRepository(filepath.Dir(dir), defaultBranches)
\* and resultChan <- result
WorkerRun(i) ==
    /\ WorkerCanPost(i)
    /\ \E repo \in MainRepos :
          resultChan' = Append(resultChan,
              ProcessRepository(Dir(gitDirs[i]), repo, defaultBranches).result)
    /\ worker' = [worker EXCEPT ![i] = "posted"]
    /\ UNCHANGED <<agentVars, pc, gitDirs, defaultBranches, concurrentFlag,
                   next, sem, wg, closed, closer, succeeded, failed, admitted,
                   det, run,
                   walk>>

\* WorkerRelease giving the slot back only after a successful update
WorkerReleaseOnSuccess(i) ==
    /\ worker[i] = "posted"
    /\ sem > 0
    /\ sem' = IF \E k \in OutcomesOf(Reported, i) : Reported[k].Success
              THEN sem - 1 ELSE sem
    /\ worker' = [worker EXCEPT ![i] = "released"]
    /\ UNCHANGED <<agentVars, pc, gitDirs, defaultBranches, concurrentFlag,
                   next, wg, resultChan, closed, closer, succeeded, failed,
                   admitted, det, run, walk>>

\* WorkerRelease giving the slot back before the result has been sent
WorkerReleaseBeforePost(i) ==
    /\ worker[i] \in {"running", "posted"}
    /\ sem > 0
    /\ sem' = sem - 1
    /\ worker' = [worker EXCEPT ![i] = "released"]
    /\ UNCHANGED <<agentVars, pc, gitDirs, defaultBranches, concurrentFlag,
                   next, wg, resultChan, closed, closer, succeeded, failed,
                   admitted, det, run, walk>>

\* goroutine of task i: the deferred <-sem
WorkerRelease(i) ==
    /\ worker[i] = "posted"
    /\ sem > 0
    /\ sem' = sem - 1
    /\ worker' = [worker EXCEPT ![i] = "released"]
    /\ UNCHANGED <<agentVars, pc, gitDirs, defaultBranches, concurrentFlag,
                   next, wg, resultChan, closed, closer, succeeded, failed,
                   admitted, det, run,
                   walk>>

\* WorkerDone leaving the counter of the WaitGroup as it is
WorkerDoneKeepsCounter(i) ==
    /\ worker[i] = "released"
    /\ worker' = [worker EXCEPT ![i] = "done"]
    /\ UNCHANGED <<agentVars, pc, gitDirs, defaultBranches, concurrentFlag,
                   next, sem, wg, resultChan, closed, closer, succeeded,
                   failed, admitted, det, run, walk>>

\* goroutine of task i: the deferred wg.Done()
WorkerDone(i) ==
    /\ worker[i] = "released"
    /\ wg' = wg - 1
    /\ worker' = [worker EXCEPT ![i] = "done"]
    /\ UNCHANGED <<agentVars, pc, gitDirs, defaultBranches, concurrentFlag,
                   next, sem, resultChan, closed, closer, succeeded, failed,
                   admitted, det, run,
                   walk>>

\* CloserWait returning while the counter is not zero
CloserWaitReturnsEarly ==
    /\ closer = "wait"
    /\ closer' = "close"
    /\ UNCHANGED <<agentVars, pc, gitDirs, defaultBranches, concurrentFlag,
                   next, sem, wg, worker, resultChan, closed, succeeded,
                   failed, admitted, det, run,
                   walk>>

\* closing goroutine: wg.Wait() returns when the counter is zero
CloserWait ==
    /\ closer = "wait"
    /\ wg = 0
    /\ closer' = "close"
    /\ UNCHANGED <<agentVars, pc, gitDirs, defaultBranches, concurrentFlag,
                   next, sem, wg, worker, resultChan, closed, succeeded,
                   failed, admitted, det, run,
                   walk>>

\* closing goroutine: close(resultChan)
CloserClose ==
    /\ closer = "close"
    /\ closed' = TRUE
    /\ closer' = "done"
    /\ UNCHANGED <<agentVars, pc, gitDirs, defaultBranches, concurrentFlag,
                   next, sem, wg, worker, resultChan, succeeded, failed,
                   admitted, det, run,
                   walk>>

\* Collect putting each result in front of its list
CollectPrepends ==
    /\ pc = "collect"
    /\ resultChan # <<>>
    /\ LET r == Head(resultChan)
       IN  IF r.Success
           THEN /\ succeeded' = <<r>> \o succeeded
                /\ failed' = failed
           ELSE /\ failed' = <<r>> \o failed
                /\ succeeded' = succeeded
    /\ resultChan' = Tail(resultChan)
    /\ UNCHANGED <<agentVars, pc, gitDirs, defaultBranches, concurrentFlag,
                   next, sem, wg, worker, closed, closer, admitted, det, run,
                   walk>>

\* Collect keeping only the latest result of each list
CollectKeepsLatest ==
    /\ pc = "collect"
    /\ resultChan # <<>>
    /\ LET r == Head(resultChan)
       IN  IF r.Success
           THEN /\ succeeded' = <<r>>
                /\ failed' = failed
           ELSE /\ failed' = <<r>>
                /\ succeeded' = succeeded
    /\ resultChan' = Tail(resultChan)
    /\ UNCHANGED <<agentVars, pc, gitDirs, defaultBranches, concurrentFlag,
                   next, sem, wg, worker, closed, closer, admitted, det, run,
                   walk>>

\* Collect ending the run at the first failed result
CollectAbortsOnFailure ==
    /\ pc = "collect"
    /\ resultChan # <<>>
    /\ LET r == Head(resultChan)
       IN  IF r.Success
           THEN /\ succeeded' = Append(succeeded, r)
                /\ failed' = failed
                /\ pc' = pc
           ELSE /\ failed' = Append(failed, r)
                /\ succeeded' = succeeded
                /\ pc' = "fatal"
    /\ resultChan' = Tail(resultChan)
    /\ UNCHANGED <<agentVars, gitDirs, defaultBranches, concurrentFlag,
                   next, sem, wg, worker, closed, closer, admitted, det, run,
                   walk>>

\* main: one iteration of for result := range resultChan
Collect ==
    /\ pc = "collect"
    /\ resultChan # <<>>
    /\ LET r == Head(resultChan)
       IN  IF r.Success
           THEN /\ succeeded' = Append(succeeded, r)
                /\ failed' = failed
           ELSE /\ failed' = Append(failed, r)
                /\ succeeded' = succeeded
    /\ resultChan' = Tail(resultChan)
    /\ UNCHANGED <<agentVars, pc, gitDirs, defaultBranches, concurrentFlag,
                   next, sem, wg, worker, closed, closer, admitted, det, run,
                   walk>>

\* CollectEnd leaving the range loop as soon as the channel is empty
CollectEndOnEmpty ==
    /\ pc = "collect"
    /\ resultChan = <<>>
    /\ pc' = "done"
    /\ UNCHANGED <<agentVars, gitDirs, defaultBranches, concurrentFlag, next,
                   sem, wg, worker, resultChan, closed, closer, succeeded,
                   failed, admitted, det, run, walk>>

\* main: the range loop ends on the closed, drained channel and the summary
\* is printed
CollectEnd ==
    /\ pc = "collect"
    /\ resultChan = <<>>
    /\ closed
    /\ pc' = "done"
    /\ UNCHANGED <<agentVars, gitDirs, defaultBranches, concurrentFlag, next,
                   sem, wg, worker, resultChan, closed, closer, succeeded,
                   failed, admitted, det, run,
                   walk>>

Next ==
    \/ Bootstrap
    \/ Find
    \/ FindError
    \/ LoopAdd
    \/ LoopAcquire
    \/ LoopEnd
    \/ \E i \in Tasks : WorkerRun(i)
    \/ \E i \in Tasks : WorkerRelease(i)
    \/ \E i \in Tasks : WorkerDone(i)
    \/ CloserWait
    \/ CloserClose
    \/ Collect
    \/ CollectEnd

Spec == Init /\ [][Next]_vars

\* C1: when main has finished collecting, it holds exactly one outcome per
\* submitted path, the succeeded list holds the successful ones and the failed
\* list the others, whatever the limit and the interleaving.
ThmC1_ExactlyOneOutcomePerTask ==
    pc = "done" =>
        /\ Len(succeeded) + Len(failed) = Len(gitDirs)
        /\ \A i \in Tasks : Cardinality(OutcomesOf(Collected, i)) = 1
        /\ \A k \in 1..Len(succeeded) : succeeded[k].Success
        /\ \A k \in 1..Len(failed) : ~failed[k].Success

WitC1_ExactlyOneOutcomePerTask ==
    /\ pc = "done"
    /\ Len(gitDirs) = MaxTasks
    /\ concurrentFlag >= 1
    /\ concurrentFlag < Len(gitDirs)
    /\ succeeded # <<>>
    /\ failed # <<>>

\* C2: the tasks that hold a slot never outnumber the concurrency limit, they
\* are exactly the slots taken, and while the limit is reached the scheduling
\* loop cannot start the next task.
ThmC2_AtMostKExecuting ==
    /\ Cardinality(Executing) <= concurrentFlag
    /\ Cardinality(Executing) = sem
    /\ Cardinality(Executing) = concurrentFlag => ~ENABLED LoopAcquire

WitC2_AtMostKExecuting ==
    /\ concurrentFlag >= 1
    /\ Cardinality(Executing) = concurrentFlag
    /\ pc = "acquire"
    /\ next <= Len(gitDirs)
    /\ worker[next] = "pending"

\* C3: once the range loop has ended and the summary is printed, no task is
\* pending or running, every task has run its deferred calls and every
\* outcome has been collected.
ThmC3_SummaryAfterAllReported ==
    pc = "done" =>
        /\ \A i \in Tasks : worker[i] \notin {"pending", "running"}
        /\ \A i \in Tasks : worker[i] = "done"
        /\ resultChan = <<>>
        /\ Len(Collected) = Len(gitDirs)

WitC3_SummaryAfterAllReported ==
    /\ pc = "done"
    /\ Len(gitDirs) >= 2
    /\ closed

\* C4: EnsureAgentAndKey is called once, before anything else; repositories
\* are discovered and tasks started only after it returned success, and when
\* it returned an error the run is over with no repository found or processed.
ThmC4_BootstrapFirst ==
    /\ Len(boot) <= 1
    /\ pc = "boot" <=> boot = <<>>
    /\ boot = <<>> =>
          gitDirs = <<>> /\ Reported = <<>> /\ closer = "idle"
    /\ (gitDirs # <<>> \/ pc \in {"find", "exit", "loop", "acquire",
                                    "collect", "done"}) =>
          boot # <<>> /\ boot[1].err = nil
    /\ (boot # <<>> /\ boot[1].err # nil) =>
          /\ pc = "fatal"
          /\ gitDirs = <<>>
          /\ Reported = <<>>
          /\ ~ENABLED Next

WitC4_BootstrapFirst ==
    /\ Len(boot) = 1
    /\ boot[1].err = nil
    /\ \E i \in Tasks : worker[i] = "running"

\* C10: a failed outcome never ends or stalls the run. Tasks are admitted in
\* the order of discovery whatever has been reported; with a positive limit
\* and some outcome failed, the run goes on until the summary, where every
\* task, failed or not, has its own outcome.
ThmC10_FailureIsolation ==
    /\ admitted = [k \in 1..Len(admitted) |-> k]
    /\ Len(admitted) = next - 1
    /\ \A i \in Tasks : worker[i] = "pending" <=> i >= next
    /\ (\E k \in 1..Len(Reported) : ~Reported[k].Success) =>
          /\ pc \in {"loop", "acquire", "collect", "done"}
          /\ (concurrentFlag >= 1 /\ pc # "done") =>
                \/ \E i \in Tasks : WorkerCanPost(i)
                \/ ENABLED (\/ LoopAdd \/ LoopAcquire \/ LoopEnd
                            \/ \E i \in Tasks : WorkerRelease(i)
                            \/ \E i \in Tasks : WorkerDone(i)
                            \/ CloserWait \/ CloserClose
                            \/ Collect \/ CollectEnd)
          /\ pc = "done" =>
                \A i \in Tasks : Cardinality(OutcomesOf(Reported, i)) = 1

WitC10_FailureIsolation ==
    /\ pc = "done"
    /\ Len(gitDirs) = MaxTasks
    /\ \E k \in 1..Len(failed) : failed[k].Path = Dir(gitDirs[1])
    /\ \E k \in 1..Len(succeeded) :
          succeeded[k].Path = Dir(gitDirs[Len(gitDirs)])

\* the state of a task in terms of the task state machine
TaskState(w) ==
    IF w = "pending" THEN "Pending"
    ELSE IF w \in {"running", "hung"} THEN "Running"
    ELSE "Completed"

\* C18: in every step each task keeps its state or moves from Pending to
\* Running or from Running to Completed; tasks appear as Pending and never
\* disappear; and the step that makes a task Running takes a slot of sem
\* that was free before it.
ThmC18_TaskStateMachine ==
    [][ /\ DOMAIN worker \subseteq DOMAIN worker'
        /\ \A i \in DOMAIN worker' \ DOMAIN worker : worker'[i] = "pending"
        /\ \A i \in DOMAIN worker :
              /\ \/ TaskState(worker'[i]) = TaskState(worker[i])
                 \/ /\ TaskState(worker[i]) = "Pending"
                    /\ TaskState(worker'[i]) = "Running"
                 \/ /\ TaskState(worker[i]) = "Running"
                    /\ TaskState(worker'[i]) = "Completed"
              /\ (worker[i] = "pending" /\ worker'[i] # "pending") =>
                    /\ sem < concurrentFlag
                    /\ sem' = sem + 1
                    /\ i \in Executing' ]_vars

WitC18_TaskStateMachine ==
    \E i, j, k \in Tasks :
        /\ TaskState(worker[i]) = "Completed"
        /\ TaskState(worker[j]) = "Running"
        /\ TaskState(worker[k]) = "Pending"

\* a step in which task i gives back its slot
Releases(i) == worker[i] = "posted" /\ worker'[i] = "released"

\* C19: a running task can always post its outcome and a task that has
\* posted can always give back its slot, full slots or not; the slots taken
\* are those of the tasks admitted and not yet released, and none is taken
\* at the summary; a slot is given back only by one task at a time, right
\* after its outcome was posted, success or failure, and a task that gave
\* its slot back never holds one again.
ThmC19_SlotReleasedOnce ==
    /\ [](/\ \A i \in Tasks : worker[i] = "running" => WorkerCanPost(i)
          /\ \A i \in Tasks : worker[i] = "posted" => ENABLED WorkerRelease(i)
          /\ sem = Cardinality(Executing)
          /\ pc = "done" => sem = 0)
    /\ [][  /\ \A i \in DOMAIN worker :
                /\ (i \in Executing /\ i \notin Executing') =>
                      Releases(i) /\ sem' = sem - 1
                /\ Releases(i) => sem' = sem - 1
                /\ worker[i] \in {"released", "done"} =>
                      worker'[i] \in {"released", "done"}
            /\ sem' < sem =>
                  Cardinality({i \in DOMAIN worker : Releases(i)}) = 1 ]_vars

WitC19_SlotReleasedOnce ==
    /\ pc = "acquire"
    /\ concurrentFlag >= 1
    /\ sem = concurrentFlag
    /\ \E i \in Tasks : worker[i] = "running"
    /\ \E j \in Tasks :
          /\ worker[j] \in {"released", "done"}
          /\ \E k \in OutcomesOf(Reported, j) : ~Reported[k].Success

\* the success flag of an outcome, and its negation
IsSuccess(r) == r.Success
IsFailure(r) == ~r.Success

\* the successful outcomes in the order they were posted: those collected,
\* then those waiting in the channel; likewise the failed ones
SucceededLine == succeeded \o SelectSeq(resultChan, IsSuccess)
FailedLine == failed \o SelectSeq(resultChan, IsFailure)

\* C20: the succeeded list holds only successes and the failed list only
\* failures; every step leaves the posting order of the successes and of
\* the failures as it is, except that posting an outcome appends it to the
\* end of the one order its success flag selects; collecting takes the
\* outcome at the head of the channel.
ThmC20_PartitionInPostingOrder ==
    /\ [](/\ \A k \in 1..Len(succeeded) : succeeded[k].Success
          /\ \A k \in 1..Len(failed) : ~failed[k].Success)
    /\ [][  /\ \/ /\ SucceededLine' = SucceededLine
                  /\ FailedLine' = FailedLine
               \/ /\ Len(resultChan') = Len(resultChan) + 1
                  /\ LET r == resultChan'[Len(resultChan')]
                     IN  IF r.Success
                         THEN /\ SucceededLine' = Append(SucceededLine, r)
                              /\ FailedLine' = FailedLine
                         ELSE /\ FailedLine' = Append(FailedLine, r)
                              /\ SucceededLine' = SucceededLine
            /\ Len(Collected') > Len(Collected) =>
                  /\ resultChan # <<>>
                  /\ resultChan' = Tail(resultChan)
                  /\ Len(Collected') = Len(Collected) + 1 ]_vars

WitC20_PartitionInPostingOrder ==
    /\ pc = "done"
    /\ Len(gitDirs) >= 3
    /\ Len(succeeded) = 2
    /\ succeeded[1].Path = Dir(gitDirs[Len(gitDirs)])
    /\ succeeded[2].Path = Dir(gitDirs[1])
    /\ Len(failed) = 1

\* the steps of the main goroutine
MainStep ==
    \/ Bootstrap
    \/ Find
    \/ FindError
    \/ LoopAdd
    \/ LoopAcquire
    \/ LoopEnd
    \/ Collect
    \/ CollectEnd

\* the steps of the goroutine of task i
WorkerStep(i) ==
    /\ i \in Tasks
    /\ \/ WorkerRun(i)
       \/ WorkerRelease(i)
       \/ WorkerDone(i)

\* the steps of the closing goroutine
CloserStep == CloserWait \/ CloserClose

\* the Go scheduler runs every goroutine that is not blocked, and every
\* external command a goroutine waits for terminates
Fairness ==
    /\ WF_vars(MainStep)
    /\ WF_vars(CloserStep)
    /\ \A i \in 1..MaxTasks : WF_vars(WorkerStep(i))

SpecLive == Init /\ [][Next]_vars /\ Fairness

\* C21: once the scheduling loop has started with a limit of at least one,
\* the run reaches the summary with every task finished and the result
\* channel closed.
ThmC21_BatchCompletes ==
    (pc = "loop" /\ concurrentFlag >= 1) ~>
        (/\ pc = "done"
         /\ closed
         /\ \A i \in Tasks : worker[i] = "done")

WitC21_BatchCompletes ==
    /\ pc = "done"
    /\ closed
    /\ concurrentFlag = 1
    /\ Len(gitDirs) >= 2
    /\ \A i \in Tasks : worker[i] = "done"

\* the tasks whose external command never returns
Hung == {i \in Tasks : worker[i] = "hung"}

\* goroutine of task i: ProcessRepository starts a git command that never
\* terminates, so that cmd.CombinedOutput never returns; one task at most
WorkerHang(i) ==
    /\ worker[i] = "running"
    /\ Hung = {}
    /\ worker' = [worker EXCEPT ![i] = "hung"]
    /\ UNCHANGED <<agentVars, pc, gitDirs, defaultBranches, concurrentFlag,
                   next, sem, wg, resultChan, closed, closer, succeeded,
                   failed, admitted, det, run, walk>>

NextHung ==
    \/ Next
    \/ \E i \in Tasks : WorkerHang(i)

\* main with at most one task whose external command hangs; the commands
\* of the other tasks terminate and the scheduler is fair as in SpecLive
SpecHung == Init /\ [][NextHung]_vars /\ Fairness

\* C29: a hung task stays hung and keeps its slot, its count in the
\* WaitGroup stays, the channel stays open and main never gets to the
\* summary.  With a limit of one, every task after the hung one stays
\* pending.  With a limit of at least two, every other task is eventually
\* done and its outcome collected.
ThmC29_HungTaskStallsItsSlot ==
    /\ [](\A h \in Hung :
            /\ sem >= 1
            /\ sem = Cardinality(Executing) + 1
            /\ wg >= 1
            /\ ~closed
            /\ pc # "done"
            /\ concurrentFlag = 1 =>
                  \A i \in Tasks : i > h => worker[i] = "pending")
    /\ [][\A h \in Hung : h \in Hung']_vars
    /\ (Hung # {} /\ concurrentFlag >= 2) ~>
          (/\ \A i \in Tasks \ Hung : worker[i] = "done"
           /\ Len(Collected) = Len(gitDirs) - 1
           /\ pc = "collect")

WitC29_HungTaskStallsItsSlot ==
    /\ concurrentFlag = 2
    /\ Len(gitDirs) = 3
    /\ Hung = {1}
    /\ worker[2] = "done"
    /\ worker[3] = "done"
    /\ pc = "collect"
    /\ Len(Collected) = 2

\* C30: with a limit of zero no task ever leaves Pending, nothing is posted
\* or collected, main gets neither to the collection nor to the summary,
\* and once main is at the first slot acquisition no step is possible: it
\* stays there.
ThmC30_ZeroLimitBlocksAdmission ==
    /\ [](concurrentFlag = 0 =>
            /\ \A i \in Tasks : worker[i] = "pending"
            /\ Reported = <<>>
            /\ sem = 0
            /\ next = 1
            /\ pc \notin {"collect", "done"}
            /\ pc = "loop" => ENABLED LoopAdd
            /\ pc = "acquire" => wg = 1 /\ ~ENABLED Next)
    /\ [][(concurrentFlag = 0 /\ pc = "acquire") => pc' = "acquire"]_vars

WitC30_ZeroLimitBlocksAdmission ==
    /\ concurrentFlag = 0
    /\ pc = "acquire"
    /\ Len(gitDirs) >= 2
    /\ next = 1

\* ------------------------------------------------------------------------
\* C31  order of the three closing events of a task

\* task i has sent its result: a result whose Path is the directory that
\* holds gitDirs[i] is in resultChan or already collected
HasPosted(i) ==
    \/ \E k \in 1..Len(resultChan) : resultChan[k].Path \o "/.git" = gitDirs[i]
    \/ \E k \in 1..Len(succeeded) : succeeded[k].Path \o "/.git" = gitDirs[i]
    \/ \E k \in 1..Len(failed) : failed[k].Path \o "/.git" = gitDirs[i]

\* task i gives its slot back in this step
FreesSlot(i) == worker'[i] = "released" /\ worker[i] # "released"

\* task i signals the WaitGroup in this step
SignalsDone(i) == worker'[i] = "done" /\ worker[i] # "done"

\* C31: for every task the result is sent first, then the slot is given
\* back, then the WaitGroup is signalled: a step that lowers sem is the
\* release of one task whose result had been sent before the step and which
\* has not yet signalled; a step that lowers wg is the signal of one task
\* that had given its slot back before the step; the results sent are as
\* many as the tasks that have sent, released or signalled; hence after
\* every step,
\* once resultChan is closed and when main has finished its report, no slot
\* is held.
ThmC31_PostReleaseDone ==
    [][ /\ closed' => sem' = 0 /\ wg' = 0
        /\ pc' = "done" => closed' /\ sem' = 0
        /\ sem' < sem =>
              \E i \in Tasks :
                  /\ FreesSlot(i)
                  /\ HasPosted(i)
                  /\ worker[i] = "posted"
                  /\ sem' = sem - 1
                  /\ wg' = wg
                  /\ resultChan' = resultChan
        /\ wg' < wg =>
              \E i \in Tasks :
                  /\ SignalsDone(i)
                  /\ worker[i] = "released"
                  /\ HasPosted(i)
                  /\ wg' = wg - 1
                  /\ sem' = sem
        /\ \A i \in Tasks :
              /\ FreesSlot(i) => sem' = sem - 1
              /\ SignalsDone(i) => wg' = wg - 1
              /\ FreesSlot(i) \/ SignalsDone(i) => HasPosted(i)'
        /\ Len(succeeded') + Len(failed') + Len(resultChan')
              = Cardinality({i \in 1..Len(gitDirs') :
                               worker'[i] \in {"posted", "released", "done"}})
      ]_vars

\* a slot has been given back while the loop waits to admit a later task:
\* the result of the finished task is in resultChan and the WaitGroup still
\* counts it
WitC31_PostReleaseDone ==
    /\ pc = "acquire"
    /\ concurrentFlag = 1
    /\ sem = 0
    /\ next = 2
    /\ worker[1] = "released"
    /\ Len(resultChan) = 1
    /\ wg = 2

\* ------------------------------------------------------------------------
\* C32  slots are acquired in submission order

\* task i has acquired its slot: the loop has passed its sem <- struct{}{}
HasAcquired(i) == worker[i] # "pending"

\* C32: tasks acquire their slots in the order of gitDirs: the k-th slot
\* acquired is the one of task k, and a task has acquired its slot only if
\* every task before it has, whatever the workers have done meanwhile.
ThmC32_AdmissionInSubmissionOrder ==
    /\ \A k \in 1..Len(admitted) : admitted[k] = k
    /\ \A i \in Tasks : HasAcquired(i) <=> i <= Len(admitted)
    /\ \A i, j \in Tasks : i < j /\ HasAcquired(j) => HasAcquired(i)

\* the third task was admitted and has finished while the first one, admitted
\* before it, is still running
WitC32_AdmissionInSubmissionOrder ==
    /\ Len(gitDirs) = 3
    /\ admitted = <<1, 2, 3>>
    /\ worker[1] = "running"
    /\ worker[2] = "done"
    /\ worker[3] = "done"

====
